---------------------------- MODULE Spec2Model ----------------------------
(***************************************************************************)
(* The tutor orchestrator: POST /chat runs the LangGraph pipeline of       *)
(* orchestrator/app/workflow.py over one WorkflowState per request,        *)
(* GET /user/{user_id} reads the profile table of orchestrator/app/        *)
(* database.py.  Python values are modelled as tagged records, Python      *)
(* strings as TLA+ strings (sequences of characters).                      *)
(***************************************************************************)
EXTENDS Integers, Sequences, FiniteSets, TLC

VARIABLES
    users,      \* the profile table behind Database.get_user_profile
    req,        \* req[r]: the HTTP request r as it arrives
    state,      \* state[r]: the WorkflowState of chat request r
    pc,         \* pc[r]: where request r is (the node that runs next)
    trace,      \* trace[r]: the nodes that have run for r, in order
    llm,        \* llm[r]: what the model calls of r replied
    tool,       \* tool[r]: the POSTs to tool endpoints made for r
    http,       \* http[r]: the HTTP response of r, once sent
    replies,    \* what the model and the tool servers can answer in this run
    server      \* the flashcard tool server: the request it serves and its progress

vars == <<users, req, state, pc, trace, llm, tool, http, replies, server>>

(***************************************************************************)
(* Python strings                                                          *)
(***************************************************************************)

\* Each function below binds its argument once, before its body runs, as
\* Python evaluates an argument before the call.

\* sub in s (text is the value of s, evaluated once)
Contains(sub, s) ==
    \E text \in {s} :
        \E i \in 1..(Len(text) - Len(sub) + 1) : SubSeq(text, i, i + Len(sub) - 1) = sub

\* any(word in s for word in words)
ContainsAny(words, s) == \E text \in {s} : \E w \in words : Contains(w, text)

\* s.startswith(p)
StartsWith(s, p) ==
    \E text \in {s} : Len(text) >= Len(p) /\ SubSeq(text, 1, Len(p)) = p

UpperAlphabet == "ABCDEFGHIJKLMNOPQRSTUVWXYZ"
LowerAlphabet == "abcdefghijklmnopqrstuvwxyz"

LowerChar(c) ==
    IF \E i \in 1..26 : SubSeq(UpperAlphabet, i, i) = c
    THEN LET i == CHOOSE j \in 1..26 : SubSeq(UpperAlphabet, j, j) = c
         IN  SubSeq(LowerAlphabet, i, i)
    ELSE c

\* s.lower(): the halves of s lowered, down to single characters
RECURSIVE Lower(_)
Lower(s) ==
    CHOOSE y \in {
             IF Len(text) = 0 THEN ""
             ELSE IF Len(text) = 1 THEN LowerChar(text)
             ELSE Lower(SubSeq(text, 1, Len(text) \div 2))
                  \o Lower(SubSeq(text, Len(text) \div 2 + 1, Len(text)))
             : text \in {s}} : TRUE

IsSpace(c) == c \in {" ", "\n", "\t", "\r"}

\* the positions of s that hold no whitespace
Inked(s) == {i \in 1..Len(s) : ~IsSpace(SubSeq(s, i, i))}

\* s.lstrip(): s from its first character that is no whitespace
LStrip(s) ==
    CHOOSE y \in {
             IF Inked(text) = {} THEN ""
             ELSE SubSeq(text, CHOOSE i \in Inked(text) : \A j \in Inked(text) : i <= j,
                         Len(text))
             : text \in {s}} : TRUE

\* s.rstrip(): s up to its last character that is no whitespace
RStrip(s) ==
    CHOOSE y \in {
             IF Inked(text) = {} THEN ""
             ELSE SubSeq(text, 1,
                         CHOOSE i \in Inked(text) : \A j \in Inked(text) : i >= j)
             : text \in {s}} : TRUE

\* s.strip()
Strip(s) == RStrip(LStrip(s))

\* characters m..n of s, the positions outside s left out as a Python slice does
Mid(s, m, n) ==
    CHOOSE y \in {
             LET lo == IF a[2] < 1 THEN 1 ELSE a[2]
                 hi == IF a[3] > Len(a[1]) THEN Len(a[1]) ELSE a[3]
             IN  IF lo > hi THEN "" ELSE SubSeq(a[1], lo, hi)
             : a \in {<<s, m, n>>}} : TRUE

\* s[a:-b] for a >= 0, b > 0: the characters after the first a and before the last b
SliceOff(s, a, b) == Mid(s, a + 1, Len(s) - b)

RECURSIVE Replace(_, _, _)
\* s.replace(old, new) for a one-character old: the halves of s replaced,
\* down to single characters
Replace(s, old, new) ==
    CHOOSE y \in {
             IF Len(text) = 0 THEN ""
             ELSE IF Len(text) = 1 THEN (IF text = old THEN new ELSE text)
             ELSE Replace(SubSeq(text, 1, Len(text) \div 2), old, new)
                  \o Replace(SubSeq(text, Len(text) \div 2 + 1, Len(text)), old, new)
             : text \in {s}} : TRUE

IsDigit(c) == \E i \in 1..10 : SubSeq("0123456789", i, i) = c

DigitValue(c) == (CHOOSE i \in 1..10 : SubSeq("0123456789", i, i) = c) - 1

\* the longest run of digits s starts with
DigitRun(s) ==
    CHOOSE y \in {
             LET others == {i \in 1..Len(text) : ~IsDigit(SubSeq(text, i, i))}
             IN  IF others = {} THEN text
                 ELSE Mid(text, 1, (CHOOSE i \in others : \A j \in others : i <= j) - 1)
             : text \in {s}} : TRUE

\* int(d) for a string of digits
RECURSIVE ParseInt(_)
ParseInt(d) ==
    CHOOSE y \in {
             IF text = "" THEN 0
             ELSE 10 * ParseInt(SubSeq(text, 1, Len(text) - 1))
                  + DigitValue(SubSeq(text, Len(text), Len(text)))
             : text \in {d}} : TRUE

(***************************************************************************)
(* Python and JSON values                                                  *)
(***************************************************************************)

None == [t |-> "none"]
PStr(s) == [t |-> "str", s |-> s]
PNum(n) == [t |-> "num", n |-> n]
PBool(b) == [t |-> "bool", b |-> b]
PList(items) == [t |-> "list", items |-> items]
\* a dict keeps its keys in insertion order: a sequence of <<key, value>>
PDict(pairs) == [t |-> "dict", pairs |-> pairs]

IsDict(v) == v.t = "dict"

HasKey(d, k) == \E i \in 1..Len(d.pairs) : d.pairs[i][1] = k

\* d[k] for a key that is there
Item(d, k) == d.pairs[CHOOSE i \in 1..Len(d.pairs) : d.pairs[i][1] = k][2]

\* d.get(k, default)
Get(d, k, default) == IF HasKey(d, k) THEN Item(d, k) ELSE default

\* bool(v)
Truthy(v) ==
    CASE v.t = "none" -> FALSE
      [] v.t = "bool" -> v.b
      [] v.t = "num"  -> v.n # 0
      [] v.t = "str"  -> v.s # ""
      [] v.t = "list" -> v.items # <<>>
      [] v.t = "dict" -> v.pairs # <<>>

(***************************************************************************)
(* schemas.py: the enumerations and the validated models                   *)
(***************************************************************************)

TeachingStyle == {"direct", "socratic", "visual", "flipped_classroom"}
EmotionalState == {"focused", "anxious", "confused", "tired"}
MasteryLevel == 1..10
ToolIntent ==
    {"flashcard_generator", "note_maker", "concept_explainer", "quiz_generator", "unknown"}
ToolIntents == ToolIntent \ {"unknown"}
\* EducationalContext.inferred_difficulty: Field(pattern=...)
DifficultyPattern == {"easy", "medium", "hard", "beginner", "intermediate", "advanced"}

\* UserInfo.validate_emotional_state
validate_emotional_state(v) ==
    ContainsAny({"focused", "anxious", "confused", "tired", "motivated"}, Lower(v))

\* UserInfo(...): TRUE when the model validates (every field min_length=1)
UserInfoValid(row) ==
    /\ \A f \in {"user_id", "name", "grade_level", "learning_style_summary",
                 "emotional_state_summary", "mastery_level_summary"} : row[f] # ""
    /\ validate_emotional_state(row.emotional_state_summary)

UserInfo(row) ==
    [t |-> "UserInfo",
     user_id |-> row.user_id,
     name |-> row.name,
     grade_level |-> row.grade_level,
     learning_style_summary |-> row.learning_style_summary,
     emotional_state_summary |-> row.emotional_state_summary,
     mastery_level_summary |-> row.mastery_level_summary]

\* EducationalContext(...): TRUE when the model validates
EducationalContextValid(teaching_style, emotional_state, mastery_level, inferred_difficulty) ==
    /\ teaching_style \in TeachingStyle
    /\ emotional_state \in EmotionalState
    /\ mastery_level \in MasteryLevel
    /\ inferred_difficulty \in DifficultyPattern

EducationalContext(teaching_style, emotional_state, mastery_level, inferred_difficulty) ==
    [t |-> "EducationalContext",
     teaching_style |-> teaching_style,
     emotional_state |-> emotional_state,
     mastery_level |-> mastery_level,
     inferred_difficulty |-> inferred_difficulty]

\* ChatRequest with the min_length of message dropped
ChatRequestValid_no_message_check(r) == r.user_id # "" /\ r.session_id # ""

\* ChatRequest: user_id, session_id and message have min_length=1
ChatRequestValid(r) == r.user_id # "" /\ r.session_id # "" /\ r.message # ""

\* APIRequest(...): TRUE when the model validates
APIRequestValid(s) ==
    /\ s.user_info.t = "UserInfo"
    /\ s.extracted_parameters.t = "dict"
    /\ s.educational_context.t = "EducationalContext"

\* ChatResponse(...): response is a str, data a dict or None
ChatResponseValid(response, data) ==
    /\ response.t = "str"
    /\ data.t \in {"dict", "none"}

(***************************************************************************)
(* database.py: the profile table                                          *)
(***************************************************************************)

SAMPLE_USERS ==
    [student123 |->
        [user_id |-> "student123",
         name |-> "Charlie",
         grade_level |-> "8",
         learning_style_summary |->
             "Kinesthetic learner, learns best through practice and repetition",
         emotional_state_summary |-> "Focused and motivated to improve",
         mastery_level_summary |-> "Level 6: Good understanding, ready for application",
         preferred_teaching_style |-> "direct",
         current_emotional_state |-> "focused",
         current_mastery_level |-> 6],
     student456 |->
        [user_id |-> "student456",
         name |-> "Alice",
         grade_level |-> "10",
         learning_style_summary |->
             "Visual learner, prefers diagrams and structured notes",
         emotional_state_summary |-> "Anxious about new concepts",
         mastery_level_summary |-> "Level 3: Building foundational knowledge",
         preferred_teaching_style |-> "visual",
         current_emotional_state |-> "anxious",
         current_mastery_level |-> 3],
     student789 |->
        [user_id |-> "student789",
         name |-> "Bob",
         grade_level |-> "7",
         learning_style_summary |->
             "Auditory learner, prefers simple terms and step-by-step explanations",
         emotional_state_summary |-> "Confused about current topic",
         mastery_level_summary |-> "Level 4: Building foundational knowledge",
         preferred_teaching_style |-> "socratic",
         current_emotional_state |-> "confused",
         current_mastery_level |-> 4]]

\* Rows of the user_profiles table other than the three samples: what the
\* UserProfile columns (Text, String, Integer) admit for a provisioned user.
\* Their summaries pass UserInfo's validation; the structured columns are
\* unconstrained by the table.
ProvisionedRows ==
    [student000 |->
        [user_id |-> "student000",
         name |-> "Dana",
         grade_level |-> "11",
         learning_style_summary |-> "Reads ahead and works alone",
         emotional_state_summary |-> "Tired but motivated",
         mastery_level_summary |-> "Level 8: Advanced, ready for challenges",
         preferred_teaching_style |-> "flipped_classroom",
         current_emotional_state |-> "tired",
         current_mastery_level |-> 3],
     student001 |->
        [user_id |-> "student001",
         name |-> "Eli",
         grade_level |-> "9",
         learning_style_summary |-> "Prefers lectures",
         emotional_state_summary |-> "Focused, sometimes anxious and confused",
         mastery_level_summary |-> "Advanced learner",
         preferred_teaching_style |-> "lecture",
         current_emotional_state |-> "focused",
         current_mastery_level |-> 9],
     student002 |->
        [user_id |-> "student002",
         name |-> "Fay",
         grade_level |-> "12",
         learning_style_summary |-> "Learns by asking questions",
         emotional_state_summary |-> "Anxious before tests, confused by proofs, focused in class",
         mastery_level_summary |-> "Level 4: Building foundational knowledge",
         preferred_teaching_style |-> "socratic",
         current_emotional_state |-> "anxious",
         current_mastery_level |-> 4]]

Store == SAMPLE_USERS @@ ProvisionedRows

\* Database.get_user_profile
get_user_profile(table, user_id) ==
    IF user_id \in DOMAIN table THEN table[user_id] ELSE table["student123"]

(***************************************************************************)
(* workflow.py: context inference                                          *)
(***************************************************************************)

\* _infer_emotional_state testing the anxious markers before the confused ones
infer_emotional_state_anxious_first(message, current_state) ==
    LET message_lower == Lower(message)
        current_lower == Lower(current_state)
    IN  IF ContainsAny({"anxious", "nervous", "worried", "struggling", "hard"},
                       message_lower)
        THEN "anxious"
        ELSE IF ContainsAny({"confused", "lost", "don't understand", "don't get"},
                            message_lower)
        THEN "confused"
        ELSE IF ContainsAny({"tired", "exhausted", "sleepy", "burned out"}, message_lower)
        THEN "tired"
        ELSE IF ContainsAny({"focused", "ready", "excited", "motivated"}, message_lower)
        THEN "focused"
        ELSE IF Contains("focused", current_lower) THEN "focused"
        ELSE IF Contains("anxious", current_lower) THEN "anxious"
        ELSE IF Contains("confused", current_lower) THEN "confused"
        ELSE "focused"

\* _infer_emotional_state testing the summary for anxious before focused
infer_emotional_state_summary_anxious_first(message, current_state) ==
    LET message_lower == Lower(message)
        current_lower == Lower(current_state)
    IN  IF ContainsAny({"confused", "lost", "don't understand", "don't get"}, message_lower)
        THEN "confused"
        ELSE IF ContainsAny({"anxious", "nervous", "worried", "struggling", "hard"},
                            message_lower)
        THEN "anxious"
        ELSE IF ContainsAny({"tired", "exhausted", "sleepy", "burned out"}, message_lower)
        THEN "tired"
        ELSE IF ContainsAny({"focused", "ready", "excited", "motivated"}, message_lower)
        THEN "focused"
        ELSE IF Contains("anxious", current_lower) THEN "anxious"
        ELSE IF Contains("focused", current_lower) THEN "focused"
        ELSE IF Contains("confused", current_lower) THEN "confused"
        ELSE "focused"

\* TutorWorkflow._infer_emotional_state
infer_emotional_state(message, current_state) ==
    LET message_lower == Lower(message)
        current_lower == Lower(current_state)
    IN  IF ContainsAny({"confused", "lost", "don't understand", "don't get"}, message_lower)
        THEN "confused"
        ELSE IF ContainsAny({"anxious", "nervous", "worried", "struggling", "hard"},
                            message_lower)
        THEN "anxious"
        ELSE IF ContainsAny({"tired", "exhausted", "sleepy", "burned out"}, message_lower)
        THEN "tired"
        ELSE IF ContainsAny({"focused", "ready", "excited", "motivated"}, message_lower)
        THEN "focused"
        ELSE IF Contains("focused", current_lower) THEN "focused"
        ELSE IF Contains("anxious", current_lower) THEN "anxious"
        ELSE IF Contains("confused", current_lower) THEN "confused"
        ELSE "focused"

\* the places where re.search(r'Level\s*(\d+)', s) can match
LevelMatches(s) ==
    {i \in 1..Len(s) :
        /\ Mid(s, i, i + 4) = "Level"
        /\ DigitRun(LStrip(Mid(s, i + 5, Len(s)))) # ""}

\* int(mastery_match.group(1)) if mastery_match else 1
SummaryMasteryLevel(mastery_summary) ==
    IF LevelMatches(mastery_summary) = {} THEN 1
    ELSE LET i == CHOOSE j \in LevelMatches(mastery_summary) :
                      \A k \in LevelMatches(mastery_summary) : j <= k
         IN  ParseInt(DigitRun(LStrip(Mid(mastery_summary, i + 5, Len(mastery_summary)))))

\* _infer_difficulty with tired left out of the states that give easy
infer_difficulty_tired_not_easy(mastery_summary, emotional_state) ==
    LET mastery_level == SummaryMasteryLevel(mastery_summary)
    IN  IF emotional_state \in {"anxious", "confused"} THEN "easy"
        ELSE IF emotional_state = "focused" /\ mastery_level >= 7 THEN "hard"
        ELSE "medium"

\* TutorWorkflow._infer_difficulty
infer_difficulty(mastery_summary, emotional_state) ==
    LET mastery_level == SummaryMasteryLevel(mastery_summary)
    IN  IF emotional_state \in {"anxious", "confused", "tired"} THEN "easy"
        ELSE IF emotional_state = "focused" /\ mastery_level >= 7 THEN "hard"
        ELSE "medium"

\* the fallback context of analyze_educational_context's except branch
FallbackContext == EducationalContext("direct", "focused", 1, "medium")

\* what the try block of analyze_educational_context reads from the profile
ProfileTeachingStyle(user_profile) ==
    IF "preferred_teaching_style" \in DOMAIN user_profile
    THEN user_profile.preferred_teaching_style ELSE "direct"

ProfileMasteryLevel(user_profile) ==
    IF "current_mastery_level" \in DOMAIN user_profile
    THEN user_profile.current_mastery_level ELSE 1

\* the try block taking mastery_level from the free-text summary
InferredContext_mastery_from_summary(table, s) ==
    LET emotional_state ==
            infer_emotional_state(s.message, s.user_info.emotional_state_summary)
        inferred_difficulty ==
            infer_difficulty(s.user_info.mastery_level_summary, emotional_state)
        user_profile == get_user_profile(table, s.user_id)
    IN  EducationalContext(ProfileTeachingStyle(user_profile), emotional_state,
                           SummaryMasteryLevel(s.user_info.mastery_level_summary),
                           inferred_difficulty)

\* the try block inferring the difficulty from the structured mastery level
InferredContext_difficulty_from_structured(table, s) ==
    LET emotional_state ==
            infer_emotional_state(s.message, s.user_info.emotional_state_summary)
        user_profile == get_user_profile(table, s.user_id)
        inferred_difficulty ==
            IF emotional_state \in {"anxious", "confused", "tired"} THEN "easy"
            ELSE IF emotional_state = "focused" /\ ProfileMasteryLevel(user_profile) >= 7
            THEN "hard"
            ELSE "medium"
    IN  EducationalContext(ProfileTeachingStyle(user_profile), emotional_state,
                           ProfileMasteryLevel(user_profile), inferred_difficulty)

\* the context the try block of analyze_educational_context builds
InferredContext(table, s) ==
    LET emotional_state ==
            infer_emotional_state(s.message, s.user_info.emotional_state_summary)
        inferred_difficulty ==
            infer_difficulty(s.user_info.mastery_level_summary, emotional_state)
        user_profile == get_user_profile(table, s.user_id)
    IN  EducationalContext(ProfileTeachingStyle(user_profile), emotional_state,
                           ProfileMasteryLevel(user_profile), inferred_difficulty)

\* TRUE when the try block of analyze_educational_context raises: an
\* AttributeError on a user_info that is None, or EducationalContext's
\* ValidationError
ContextRaises(table, s) ==
    \/ s.user_info = None
    \/ LET c == InferredContext(table, s)
       IN  ~EducationalContextValid(c.teaching_style, c.emotional_state,
                                    c.mastery_level, c.inferred_difficulty)

\* analyze_educational_context without its except branch taking effect
ContextOf_no_fallback(table, s) == InferredContext(table, s)

\* analyze_educational_context giving up on the profile once the chat has a history
ContextOf_reads_history(table, s) ==
    IF ContextRaises(table, s) \/ s.chat_history # <<>>
    THEN FallbackContext ELSE InferredContext(table, s)

\* the body of analyze_educational_context: the context it leaves in the state
ContextOf(table, s) ==
    IF ContextRaises(table, s) THEN FallbackContext ELSE InferredContext(table, s)

(***************************************************************************)
(* json: dumps, and loads over the documents the model exchanges           *)
(***************************************************************************)

RECURSIVE Spaces(_)
Spaces(n) == IF n <= 0 THEN "" ELSE " " \o Spaces(n - 1)

RECURSIVE JsonEncode(_, _, _)
RECURSIVE JsonEncodeItems(_, _, _, _)
RECURSIVE JsonEncodePairs(_, _, _, _)

\* json.dumps(v, indent=indent) at nesting depth level; indent = 0 stands for
\* the default (no indent, separators ", " and ": ")
JsonEncode(v, indent, level) ==
    LET open  == IF indent > 0 THEN "\n" \o Spaces(indent * (level + 1)) ELSE ""
        close == IF indent > 0 THEN "\n" \o Spaces(indent * level) ELSE ""
    IN  CASE v.t = "none" -> "null"
          [] v.t = "bool" -> (IF v.b THEN "true" ELSE "false")
          [] v.t = "num"  -> ToString(v.n)
          [] v.t = "str"  -> "\"" \o v.s \o "\""
          [] v.t = "list" ->
                IF v.items = <<>> THEN "[]"
                ELSE "[" \o open \o JsonEncodeItems(v.items, 1, indent, level + 1)
                         \o close \o "]"
          [] v.t = "dict" ->
                IF v.pairs = <<>> THEN "{}"
                ELSE "{" \o open \o JsonEncodePairs(v.pairs, 1, indent, level + 1)
                         \o close \o "}"

JsonSeparator(indent, level) ==
    IF indent > 0 THEN ",\n" \o Spaces(indent * level) ELSE ", "

JsonEncodeItems(items, i, indent, level) ==
    JsonEncode(items[i], indent, level)
    \o (IF i = Len(items) THEN ""
        ELSE JsonSeparator(indent, level) \o JsonEncodeItems(items, i + 1, indent, level))

JsonEncodePairs(pairs, i, indent, level) ==
    "\"" \o pairs[i][1] \o "\": " \o JsonEncode(pairs[i][2], indent, level)
    \o (IF i = Len(pairs) THEN ""
        ELSE JsonSeparator(indent, level) \o JsonEncodePairs(pairs, i + 1, indent, level))

\* json.dumps(v)
JsonDumps(v) == JsonEncode(v, 0, 0)

\* json.dumps(v, indent=2)
JsonDumpsIndent2(v) == JsonEncode(v, 2, 0)

\* The JSON documents a model reply or a tool body can carry in this model.
ParamsDoc ==
    PDict(<<<<"topic", PStr("photosynthesis")>>, <<"count", PNum(5)>>,
            <<"difficulty", PStr("medium")>>>>)
ToolData == PDict(<<<<"title", PStr("Photosynthesis")>>, <<"items", PList(<<PNum(1)>>)>>>>)
ToolSuccessDoc ==
    PDict(<<<<"success", PBool(TRUE)>>, <<"data", ToolData>>, <<"error", None>>>>)
ToolFailureDoc ==
    PDict(<<<<"success", PBool(FALSE)>>, <<"data", PDict(<<>>)>>,
            <<"error", PStr("Generation failed")>>>>)
ToolNoDataDoc == PDict(<<<<"success", PBool(TRUE)>>>>)
ToolListDataDoc ==
    PDict(<<<<"success", PBool(TRUE)>>, <<"data", PList(<<PNum(1), PNum(2)>>)>>>>)
ToolNoErrorDoc == PDict(<<<<"success", PBool(FALSE)>>>>)

JsonDocs ==
    {ParamsDoc, ToolSuccessDoc, ToolFailureDoc, ToolNoDataDoc, ToolListDataDoc,
     ToolNoErrorDoc, PDict(<<>>), None, PList(<<PNum(1), PNum(2)>>), PStr("flashcards")}

\* TRUE when json.loads(text) returns instead of raising JSONDecodeError
JsonParses(text) == \E v \in JsonDocs : JsonDumps(v) = text

\* json.loads(text), for a text that parses
JsonLoads(text) == CHOOSE v \in JsonDocs : JsonDumps(v) = text

(***************************************************************************)
(* workflow.py: intent classification                                      *)
(***************************************************************************)

\* intent_map of analyze_intent, in its insertion order
intent_map ==
    << <<"flashcard", "flashcard_generator">>,
       <<"note", "note_maker">>,
       <<"concept", "concept_explainer">>,
       <<"explain", "concept_explainer">>,
       <<"quiz", "quiz_generator">>,
       <<"practice", "quiz_generator">>,
       <<"question", "quiz_generator">> >>

\* the keywords of intent_map that occur in tool_name
IntentMapHits(tool_name) ==
    {i \in 1..Len(intent_map) : Contains(intent_map[i][1], tool_name)}

\* _analyze_intent_keywords ending in a value that is no ToolIntent
analyze_intent_keywords_bad_default(message) ==
    IF ContainsAny({"flashcard", "memorize", "cards", "practice terms", "drill"},
                   Lower(message))
    THEN "flashcard_generator"
    ELSE "general"

\* _analyze_intent_keywords testing the quiz words before the flashcard words
analyze_intent_keywords_quiz_first(message) ==
    LET message_lower == Lower(message)
    IN  IF ContainsAny({"quiz", "practice", "questions", "test", "problems",
                        "exercises"}, message_lower)
        THEN "quiz_generator"
        ELSE IF ContainsAny({"flashcard", "memorize", "cards", "practice terms", "drill"},
                            message_lower)
        THEN "flashcard_generator"
        ELSE IF ContainsAny({"note", "notes", "summary", "outline", "write"}, message_lower)
        THEN "note_maker"
        ELSE IF ContainsAny({"explain", "concept", "understand", "what is", "how does",
                             "tell me about"}, message_lower)
        THEN "concept_explainer"
        ELSE "unknown"

\* TutorWorkflow._analyze_intent_keywords
analyze_intent_keywords(message) ==
    LET message_lower == Lower(message)
    IN  IF ContainsAny({"flashcard", "memorize", "cards", "practice terms", "drill"},
                       message_lower)
        THEN "flashcard_generator"
        ELSE IF ContainsAny({"note", "notes", "summary", "outline", "write"}, message_lower)
        THEN "note_maker"
        ELSE IF ContainsAny({"explain", "concept", "understand", "what is", "how does",
                             "tell me about"}, message_lower)
        THEN "concept_explainer"
        ELSE IF ContainsAny({"quiz", "practice", "questions", "test", "problems",
                             "exercises"}, message_lower)
        THEN "quiz_generator"
        ELSE "unknown"

\* A model call either raises or returns a reply with the given content.
LlmRaise == [kind |-> "raise"]
LlmReply(text) == [kind |-> "reply", content |-> text]

\* analyze_intent taking the keyword that comes first in the reply, not in the table
IntentOf_first_in_reply(s, outcome) ==
    IF s.user_info = None \/ s.educational_context = None \/ outcome.kind = "raise"
    THEN analyze_intent_keywords(s.message)
    ELSE LET tool_name == Lower(Strip(outcome.content))
             hits == IntentMapHits(tool_name)
             at(i) == CHOOSE k \in 1..Len(tool_name) :
                         /\ StartsWith(Mid(tool_name, k, Len(tool_name)), intent_map[i][1])
                         /\ \A j \in 1..(k - 1) :
                               ~StartsWith(Mid(tool_name, j, Len(tool_name)),
                                           intent_map[i][1])
         IN  IF hits # {}
             THEN intent_map[CHOOSE i \in hits : \A j \in hits : at(i) <= at(j)][2]
             ELSE analyze_intent_keywords(s.message)

\* analyze_intent giving up, without the keyword fallback, when the model call raises
IntentOf_unknown_on_raise(s, outcome) ==
    IF s.user_info = None \/ s.educational_context = None \/ outcome.kind = "raise"
    THEN "unknown"
    ELSE LET tool_name == Lower(Strip(outcome.content))
             hits == IntentMapHits(tool_name)
         IN  IF hits # {}
             THEN intent_map[CHOOSE i \in hits : \A j \in hits : i <= j][2]
             ELSE analyze_intent_keywords(s.message)

\* the body of analyze_intent: the intent it leaves in the state
IntentOf(s, outcome) ==
    IF s.user_info = None \/ s.educational_context = None \/ outcome.kind = "raise"
    THEN analyze_intent_keywords(s.message)            \* the except branch
    ELSE LET tool_name == Lower(Strip(outcome.content))
             hits == IntentMapHits(tool_name)
         IN  IF hits # {}
             THEN intent_map[CHOOSE i \in hits : \A j \in hits : i <= j][2]
             ELSE analyze_intent_keywords(s.message)

\* route_by_intent sending every intent, unknown too, through extraction
route_by_intent_unknown_extracts(s) ==
    CASE s.intent = PStr("flashcard_generator") -> "extract_flashcard_params"
      [] s.intent = PStr("note_maker")          -> "extract_note_params"
      [] s.intent = PStr("concept_explainer")   -> "extract_concept_params"
      [] OTHER                                  -> "extract_quiz_params"

\* route_by_intent sending note_maker to the concept extraction node
route_by_intent_note_to_concept(s) ==
    CASE s.intent = PStr("flashcard_generator") -> "extract_flashcard_params"
      [] s.intent = PStr("note_maker")          -> "extract_concept_params"
      [] s.intent = PStr("concept_explainer")   -> "extract_concept_params"
      [] s.intent = PStr("quiz_generator")      -> "extract_quiz_params"
      [] OTHER                                  -> "format_response"

\* TutorWorkflow.route_by_intent
route_by_intent(s) ==
    CASE s.intent = PStr("flashcard_generator") -> "extract_flashcard_params"
      [] s.intent = PStr("note_maker")          -> "extract_note_params"
      [] s.intent = PStr("concept_explainer")   -> "extract_concept_params"
      [] s.intent = PStr("quiz_generator")      -> "extract_quiz_params"
      [] OTHER                                  -> "format_response"

(***************************************************************************)
(* workflow.py: parameter extraction                                       *)
(***************************************************************************)

\* _get_fallback_params answering the flashcard map for every tool
get_fallback_params_one_map(tool_name) ==
    PDict(<<<<"topic", PStr("general")>>,
            <<"count", PNum(5)>>,
            <<"difficulty", PStr("medium")>>,
            <<"subject", PStr("general")>>,
            <<"include_examples", PBool(TRUE)>>>>)

\* TutorWorkflow._get_fallback_params
get_fallback_params(tool_name) ==
    CASE tool_name = "flashcard_generator" ->
            PDict(<<<<"topic", PStr("general")>>,
                    <<"count", PNum(5)>>,
                    <<"difficulty", PStr("medium")>>,
                    <<"subject", PStr("general")>>,
                    <<"include_examples", PBool(TRUE)>>>>)
      [] tool_name = "note_maker" ->
            PDict(<<<<"topic", PStr("general")>>,
                    <<"subject", PStr("general")>>,
                    <<"note_taking_style", PStr("structured")>>,
                    <<"include_examples", PBool(TRUE)>>,
                    <<"include_analogies", PBool(FALSE)>>>>)
      [] tool_name = "concept_explainer" ->
            PDict(<<<<"concept_to_explain", PStr("general concept")>>,
                    <<"current_topic", PStr("general")>>,
                    <<"desired_depth", PStr("intermediate")>>>>)
      [] tool_name = "quiz_generator" ->
            PDict(<<<<"topic", PStr("general")>>,
                    <<"subject", PStr("general")>>,
                    <<"difficulty", PStr("intermediate")>>,
                    <<"question_type", PStr("practice")>>,
                    <<"num_questions", PNum(10)>>>>)
      [] OTHER -> PDict(<<>>)

\* The Markdown code fence, three backquotes. A TLA+ string cannot hold a
\* backquote: the character ~ stands for it in every text of this module.
Fence == "~~~"

\* the "Clean JSON response" step of _extract_parameters
CleanJson(params_text) ==
    IF StartsWith(params_text, Fence \o "json") THEN Strip(SliceOff(params_text, 7, 3))
    ELSE IF StartsWith(params_text, Fence) THEN Strip(SliceOff(params_text, 3, 3))
    ELSE params_text

\* TutorWorkflow._extract_parameters: the extracted_parameters it leaves in the state
extract_parameters(tool_name, s, outcome) ==
    IF s.user_info = None \/ s.educational_context = None \/ outcome.kind = "raise"
    THEN get_fallback_params(tool_name)
    ELSE LET params_text == CleanJson(Strip(outcome.content))
         IN  IF JsonParses(params_text) THEN JsonLoads(params_text)
             ELSE get_fallback_params(tool_name)

\* the tool_name each extract_*_params node passes to _extract_parameters
ExtractNodeTool ==
    [extract_flashcard_params |-> "flashcard_generator",
     extract_note_params      |-> "note_maker",
     extract_concept_params   |-> "concept_explainer",
     extract_quiz_params      |-> "quiz_generator"]

(***************************************************************************)
(* workflow.py: dispatch and formatting                                    *)
(***************************************************************************)

\* tool_mapping with no endpoint configured for the quiz tool
tool_mapping_without_quiz ==
    [flashcard_generator |-> "http://localhost:8001",
     note_maker          |-> "http://localhost:8002",
     concept_explainer   |-> "http://localhost:8003"]

\* tool_mapping of dispatch_to_api
tool_mapping ==
    [flashcard_generator |-> "http://localhost:8001",
     note_maker          |-> "http://localhost:8002",
     concept_explainer   |-> "http://localhost:8003",
     quiz_generator      |-> "http://localhost:8004"]

\* tool_mapping.get(state["intent"])
ApiUrl(s) ==
    IF s.intent # None /\ s.intent.s \in DOMAIN tool_mapping
    THEN PStr(tool_mapping[s.intent.s]) ELSE None

\* What client.post does: it raises (timeout, connection error) with a
\* message, or it returns a response with a status and a body.
HttpRaise(message) == [kind |-> "raise", message |-> message]
HttpResponse(status, body) == [kind |-> "response", status |-> status, body |-> body]

\* str(e) of the ValidationError APIRequest(...) raises
ValidationMessage == "1 validation error for APIRequest"
\* str(e) of the JSONDecodeError response.json() raises on a body that is not JSON
JsonDecodeMessage == "Expecting value: line 1 column 1 (char 0)"

Failure(error) == PDict(<<<<"success", PBool(FALSE)>>, <<"error", PStr(error)>>>>)

\* str(e) of the httpx.ReadTimeout client.post raises after timeout=60.0
TimeoutMessage == ""

\* TRUE when dispatch_to_api gets as far as client.post
DispatchPosts(s) ==
    /\ s.intent # PStr("unknown")
    /\ ApiUrl(s) # None
    /\ APIRequestValid(s)

\* TutorWorkflow.dispatch_to_api: the api_response it leaves in the state
\* (outcome is read only when DispatchPosts(s))
dispatch_to_api(s, outcome) ==
    IF s.intent = PStr("unknown") THEN s.api_response
    ELSE IF ApiUrl(s) = None THEN Failure("Tool not configured")
    ELSE IF ~APIRequestValid(s) THEN Failure("Connection error: " \o ValidationMessage)
    ELSE IF outcome.kind = "raise" THEN Failure("Connection error: " \o outcome.message)
    ELSE IF outcome.status = 200
         THEN IF JsonParses(outcome.body) THEN JsonLoads(outcome.body)
              ELSE Failure("Connection error: " \o JsonDecodeMessage)
    ELSE Failure("API server error: " \o ToString(outcome.status))

\* str(v) inside an f-string
PyStr(v) ==
    CASE v.t = "str"  -> v.s
      [] v.t = "none" -> "None"
      [] v.t = "bool" -> (IF v.b THEN "True" ELSE "False")
      [] v.t = "num"  -> ToString(v.n)
      [] OTHER        -> JsonDumps(v)

\* _get_adaptation_note naming the teaching style before the emotional state
get_adaptation_note_style_first(context) ==
    LET emotional ==
            CASE context.emotional_state = "anxious"  -> <<"simplified for comfort">>
              [] context.emotional_state = "confused" -> <<"broken down into simpler concepts">>
              [] context.emotional_state = "tired"    -> <<"made concise for easy digestion">>
              [] OTHER -> <<>>
        style ==
            CASE context.teaching_style = "visual"   -> <<"enhanced with visual elements">>
              [] context.teaching_style = "socratic" -> <<"structured to encourage thinking">>
              [] OTHER -> <<>>
        adaptations == style \o emotional
    IN  IF adaptations = <<>> THEN "Tailored to your learning preferences."
        ELSE "Adaptations: "
             \o adaptations[1]
             \o (IF Len(adaptations) > 1 THEN ", " \o adaptations[2] ELSE "")
             \o "."

\* TutorWorkflow._get_adaptation_note
get_adaptation_note(context) ==
    LET emotional ==
            CASE context.emotional_state = "anxious"  -> <<"simplified for comfort">>
              [] context.emotional_state = "confused" -> <<"broken down into simpler concepts">>
              [] context.emotional_state = "tired"    -> <<"made concise for easy digestion">>
              [] OTHER -> <<>>
        style ==
            CASE context.teaching_style = "visual"   -> <<"enhanced with visual elements">>
              [] context.teaching_style = "socratic" -> <<"structured to encourage thinking">>
              [] OTHER -> <<>>
        adaptations == emotional \o style
    IN  IF adaptations = <<>> THEN "Tailored to your learning preferences."
        ELSE "Adaptations: "
             \o adaptations[1]
             \o (IF Len(adaptations) > 1 THEN ", " \o adaptations[2] ELSE "")
             \o "."

ClarificationMessage ==
    "I understand you need help with learning. Could you please specify if you'd like flashcards, notes, concept explanations, or practice questions?"

\* the failure template without the error text
FailureMessage_drops_error(error) ==
    "I encountered an issue while processing your request. Please try again."

FailureMessage(error) ==
    "I encountered an issue while processing your request: " \o error \o ". Please try again."

\* TRUE when format_response raises: .get on an api_response that is no dict,
\* ["data"] on one that has no data, .value or .emotional_state on None
FormatRaises(s) ==
    /\ s.intent # PStr("unknown")
    /\ Truthy(s.api_response)
    /\ \/ ~IsDict(s.api_response)
       \/ /\ Truthy(Get(s.api_response, "success", None))
          /\ \/ ~HasKey(s.api_response, "data")
             \/ s.intent = None
             \/ s.educational_context = None

\* TutorWorkflow.format_response: the final_response it leaves in the state
\* (when it does not raise)
format_response(s) ==
    IF s.intent = PStr("unknown") THEN PStr(ClarificationMessage)
    ELSE IF Truthy(s.api_response) /\ Truthy(Get(s.api_response, "success", None))
    THEN LET data == Item(s.api_response, "data")
             tool_name == Replace(s.intent.s, "_", " ")
             adaptation_note == get_adaptation_note(s.educational_context)
         IN  PStr("I've generated " \o tool_name
                  \o " for you, adapted to your learning needs.\n"
                  \o adaptation_note \o "\n"
                  \o "Here are your results:\n\n" \o JsonDumpsIndent2(data))
    ELSE LET error ==
                 IF Truthy(s.api_response)
                 THEN PyStr(Get(s.api_response, "error", PStr("Unknown error")))
                 ELSE "No response from tool"
         IN  PStr(FailureMessage(error))

(***************************************************************************)
(* main.py: the endpoints                                                  *)
(***************************************************************************)

\* initial_state of chat_endpoint
InitialState(request) ==
    [user_id |-> request.user_id,
     session_id |-> request.session_id,
     message |-> request.message,
     chat_history |-> request.chat_history,
     user_info |-> None,
     educational_context |-> None,
     intent |-> None,
     extracted_parameters |-> PDict(<<>>),
     api_response |-> None,
     final_response |-> None]

\* chat_endpoint leaving educational_context at its initial None
ContextUsed_left_null(result) == None

\* the educational_context dict chat_endpoint builds from the result
ContextUsed(result) ==
    IF result.educational_context = None THEN None
    ELSE [t |-> "dict_of_context",
          teaching_style |-> result.educational_context.teaching_style,
          emotional_state |-> result.educational_context.emotional_state,
          mastery_level |-> result.educational_context.mastery_level,
          inferred_difficulty |-> result.educational_context.inferred_difficulty]

\* result.get("api_response", {}).get("data") if result.get("api_response") else None
ResultData(result) ==
    IF Truthy(result.api_response) THEN Get(result.api_response, "data", None) ELSE None

\* TRUE when building the ChatResponse raises
ChatResponseRaises(result) ==
    \/ Truthy(result.api_response) /\ ~IsDict(result.api_response)
    \/ ~ChatResponseValid(result.final_response, ResultData(result))

\* ChatResponse(...) as chat_endpoint returns it
ChatResponse(result) ==
    [response |-> result.final_response,
     tool_used |-> result.intent,
     data |-> ResultData(result),
     educational_context_used |-> ContextUsed(result)]

HttpReply(status, body) == [status |-> status, body |-> body]

(***************************************************************************)
(* api_servers/flashcard_generator/app/main.py: the flashcard tool server  *)
(***************************************************************************)

\* TRUE when int(s) returns for the string s: optional whitespace around an
\* optional sign and at least one digit, nothing else
IntParses(s) ==
    \E text \in {Strip(s)} :
        \E digits \in {IF StartsWith(text, "-") \/ StartsWith(text, "+")
                       THEN Mid(text, 2, Len(text)) ELSE text} :
            digits # "" /\ DigitRun(digits) = digits

\* int(s), for a string that parses
IntOf(s) ==
    CHOOSE y \in {
             IF StartsWith(text, "-") THEN 0 - ParseInt(Mid(text, 2, Len(text)))
             ELSE IF StartsWith(text, "+") THEN ParseInt(Mid(text, 2, Len(text)))
             ELSE ParseInt(text)
             : text \in {Strip(s)}} : TRUE

Smaller(a, b) == IF a <= b THEN a ELSE b

\* the integer the try block of _adapt_flashcard_count leaves in original_count
\* (a bool is an int for isinstance, and counts as 0 or 1)
CountAsInt(original_count) ==
    CASE original_count.t = "str" ->
            (IF IntParses(original_count.s) THEN IntOf(original_count.s) ELSE 5)
      [] original_count.t = "num"  -> original_count.n
      [] original_count.t = "bool" -> (IF original_count.b THEN 1 ELSE 0)
      [] OTHER -> 5

\* _adapt_flashcard_count
adapt_flashcard_count(original_count, context) ==
    LET n == CountAsInt(original_count)
    IN  IF context.emotional_state \in {"anxious", "confused", "tired"}
        THEN Smaller(n, 3)
        ELSE IF context.emotional_state = "focused" /\ context.mastery_level >= 7
        THEN Smaller(n + 2, 20)
        ELSE Smaller(n, 10)

\* TRUE when _adapt_difficulty raises: .lower() on a truthy value that is no str
AdaptDifficultyRaises(original_difficulty) ==
    Truthy(original_difficulty) /\ original_difficulty.t # "str"

\* _adapt_difficulty (when it does not raise)
adapt_difficulty(original_difficulty, context) ==
    LET key == IF Truthy(original_difficulty) THEN Lower(original_difficulty.s)
               ELSE "medium"
        normalized_difficulty ==
            CASE key \in {"low", "easy"}  -> "easy"
              [] key \in {"high", "hard"} -> "hard"
              [] OTHER                    -> "medium"
    IN  IF context.emotional_state \in {"anxious", "confused"} THEN "easy"
        ELSE IF context.mastery_level >= 8 /\ context.emotional_state = "focused"
        THEN "hard"
        ELSE normalized_difficulty

\* _safe_extract_params: the count and the difficulty it returns
SafeCount(params) == Get(params, "count", Get(params, "number", PNum(5)))
SafeDifficulty(params) == Get(params, "difficulty", PStr("medium"))

\* the flashcard server with no request to serve
ServerIdle ==
    [pc |-> "idle", request |-> None, adapted_count |-> 0, adapted_difficulty |-> "",
     flashcards |-> <<>>, response |-> None]

(***************************************************************************)
(* The inputs: requests, model replies, tool outcomes                      *)
(***************************************************************************)

\* the longest chat_history a request carries
MaxHistory == 1

UserIds == DOMAIN Store \cup {"nonexistent-user"}

SessionIds == {"test-session-001", ""}

Messages ==
    {"I want to practice flashcards on photosynthesis for biology",
     "Explain quantum mechanics to me",
     "Can you help me?",
     "I'm confused and tired, give me a quiz",
     "Create detailed notes about the water cycle",
     "I am struggling, this is hard, I need practice problems",
     "I don't understand derivatives, I'm worried",
     "I am so TIRED but ready for a quiz",
     "I'm excited to memorize vocabulary",
     ""}

HistoryMessages ==
    {[role |-> "user", content |-> "Hi, I want to improve my biology knowledge"]}

Histories == UNION {[1..n -> HistoryMessages] : n \in 0..MaxHistory}

ChatRequests ==
    [kind : {"chat"}, user_id : UserIds \cup {""}, session_id : SessionIds,
     message : Messages, chat_history : Histories]

UserRequests == [kind : {"get_user"}, user_id : UserIds]

\* what the intent model call can do
IntentOutcomes ==
    {LlmRaise,
     LlmReply("flashcard_generator"),
     LlmReply("note_maker"),
     LlmReply("  Concept_Explainer\n"),
     LlmReply("quiz_generator"),
     LlmReply("The student wants practice questions on their notes"),
     LlmReply("I cannot determine the tool")}

\* what the parameter model call can do
ParamOutcomes ==
    {LlmRaise,
     LlmReply(JsonDumps(ParamsDoc)),
     LlmReply(Fence \o "json\n" \o JsonDumps(ParamsDoc) \o "\n" \o Fence),
     LlmReply(Fence \o "\n{}\n" \o Fence \o "\n"),
     LlmReply(Fence \o "json\n" \o JsonDumps(ParamsDoc)),
     LlmReply("Here are the parameters you asked for"),
     LlmReply(""),
     LlmReply("null"),
     LlmReply("[1, 2]"),
     LlmReply("\"flashcards\"")}

\* what the POST to the tool can do
ToolOutcomes ==
    {HttpRaise(TimeoutMessage),
     HttpRaise("All connection attempts failed"),
     HttpResponse(201, "{}"),
     HttpResponse(500, "Internal Server Error"),
     HttpResponse(200, JsonDumps(ToolSuccessDoc)),
     HttpResponse(200, JsonDumps(ToolFailureDoc)),
     HttpResponse(200, JsonDumps(ToolNoDataDoc)),
     HttpResponse(200, JsonDumps(ToolListDataDoc)),
     HttpResponse(200, JsonDumps(ToolNoErrorDoc)),
     HttpResponse(200, "{}"),
     HttpResponse(200, "null"),
     HttpResponse(200, "[1, 2]"),
     HttpResponse(200, "<html>Bad Gateway</html>")}

(***************************************************************************)
(* The state machine                                                       *)
(***************************************************************************)

ExtractNodes == DOMAIN ExtractNodeTool

NoLlm == [intent |-> None, params |-> None]

\* every reply of the model and of the tool servers the model considers
AllReplies == [intent |-> IntentOutcomes, params |-> ParamOutcomes, tool |-> ToolOutcomes]

\* the requests ids arrive, drawn from requests; the services answer from answers
InitFor(ids, requests, answers) ==
    /\ users = Store
    /\ req \in [ids -> requests]
    /\ state = [r \in ids |-> None]
    /\ pc = [r \in ids |-> "request"]
    /\ trace = [r \in ids |-> <<>>]
    /\ llm = [r \in ids |-> NoLlm]
    /\ tool = [r \in ids |-> <<>>]
    /\ http = [r \in ids |-> None]
    /\ replies = answers
    /\ server = ServerIdle

InitWith(requests) == InitFor({1}, requests, AllReplies)

Init == InitWith(ChatRequests \cup UserRequests)

\* a node of the graph ran for r and the graph goes on with next
Ran(r, node, next) ==
    /\ trace' = [trace EXCEPT ![r] = Append(@, node)]
    /\ pc' = [pc EXCEPT ![r] = next]

\* a node raised: graph.ainvoke raises and chat_endpoint answers 500
Raised(r, node) ==
    /\ trace' = [trace EXCEPT ![r] = Append(@, node)]
    /\ pc' = [pc EXCEPT ![r] = "done"]
    /\ http' = [http EXCEPT ![r] = HttpReply(500, [detail |-> "Internal server error"])]

\* POST /chat arrives: FastAPI validates the ChatRequest, chat_endpoint
\* prepares initial_state and starts the graph at its entry point
chat_endpoint(r) ==
    /\ pc[r] = "request"
    /\ req[r].kind = "chat"
    /\ IF ChatRequestValid(req[r])
       THEN /\ state' = [state EXCEPT ![r] = InitialState(req[r])]
            /\ pc' = [pc EXCEPT ![r] = "retrieve_state"]
            /\ UNCHANGED http
       ELSE /\ http' = [http EXCEPT ![r] = HttpReply(422, [detail |-> "validation error"])]
            /\ pc' = [pc EXCEPT ![r] = "done"]
            /\ UNCHANGED state
    /\ UNCHANGED <<users, req, trace, llm, tool, replies, server>>

\* TRUE when Database.get_user_profile raises: it has no raising path
get_user_profile_raises(table, user_id) == FALSE

\* GET /user/{user_id}
get_user_endpoint(r) ==
    /\ pc[r] = "request"
    /\ req[r].kind = "get_user"
    /\ http' = [http EXCEPT ![r] =
                   IF get_user_profile_raises(users, req[r].user_id)
                   THEN HttpReply(404, [detail |-> "User not found"])
                   ELSE HttpReply(200, get_user_profile(users, req[r].user_id))]
    /\ pc' = [pc EXCEPT ![r] = "done"]
    /\ UNCHANGED <<users, req, state, trace, llm, tool, replies, server>>

retrieve_state(r) ==
    /\ pc[r] = "retrieve_state"
    /\ LET user_profile == get_user_profile(users, state[r].user_id)
       IN  IF UserInfoValid(user_profile)
           THEN /\ state' = [state EXCEPT ![r].user_info = UserInfo(user_profile)]
                /\ Ran(r, "retrieve_state", "analyze_educational_context")
                /\ UNCHANGED http
           ELSE /\ Raised(r, "retrieve_state")
                /\ UNCHANGED state
    /\ UNCHANGED <<users, req, llm, tool, replies, server>>

\* analyze_educational_context keeping the context on the one TutorWorkflow
\* instance all requests share: every pipeline in flight sees the new context
analyze_educational_context_shared(r) ==
    /\ pc[r] = "analyze_educational_context"
    /\ state' = [q \in DOMAIN state |->
                    IF state[q] = None THEN None
                    ELSE [state[q] EXCEPT !.educational_context =
                                              ContextOf(users, state[r])]]
    /\ Ran(r, "analyze_educational_context", "analyze_intent")
    /\ UNCHANGED <<users, req, llm, tool, http, replies, server>>

analyze_educational_context(r) ==
    /\ pc[r] = "analyze_educational_context"
    /\ state' = [state EXCEPT ![r].educational_context = ContextOf(users, state[r])]
    /\ Ran(r, "analyze_educational_context", "analyze_intent")
    /\ UNCHANGED <<users, req, llm, tool, http, replies, server>>

analyze_intent(r) ==
    /\ pc[r] = "analyze_intent"
    /\ \E outcome \in replies.intent :
          LET intent == PStr(IntentOf(state[r], outcome))
              after == [state[r] EXCEPT !.intent = intent]
          IN  /\ state' = [state EXCEPT ![r] = after]
              /\ llm' = [llm EXCEPT ![r].intent = outcome]
              /\ Ran(r, "analyze_intent", route_by_intent(after))
    /\ UNCHANGED <<users, req, tool, http, replies, server>>

\* the extract_*_params nodes emptying chat_history once the prompt is built
extract_params_drops_history(r) ==
    /\ pc[r] \in ExtractNodes
    /\ \E outcome \in replies.params :
          /\ state' = [state EXCEPT
                          ![r].extracted_parameters =
                              extract_parameters(ExtractNodeTool[pc[r]], state[r], outcome),
                          ![r].chat_history = <<>>]
          /\ llm' = [llm EXCEPT ![r].params = outcome]
    /\ Ran(r, pc[r], "dispatch_to_api")
    /\ UNCHANGED <<users, req, tool, http, replies, server>>

\* the four extract_*_params nodes
extract_params(r) ==
    /\ pc[r] \in ExtractNodes
    /\ \E outcome \in replies.params :
          /\ state' = [state EXCEPT ![r].extracted_parameters =
                          extract_parameters(ExtractNodeTool[pc[r]], state[r], outcome)]
          /\ llm' = [llm EXCEPT ![r].params = outcome]
    /\ Ran(r, pc[r], "dispatch_to_api")
    /\ UNCHANGED <<users, req, tool, http, replies, server>>

\* dispatch_to_api building the APIRequest before its try block: a
\* ValidationError leaves the node and the graph
dispatch_node_request_outside_try(r) ==
    /\ pc[r] = "dispatch_to_api"
    /\ IF state[r].intent # PStr("unknown") /\ ApiUrl(state[r]) # None
          /\ ~APIRequestValid(state[r])
       THEN /\ Raised(r, "dispatch_to_api")
            /\ UNCHANGED <<state, tool>>
       ELSE /\ IF DispatchPosts(state[r])
               THEN \E outcome \in replies.tool :
                       /\ tool' = [tool EXCEPT ![r] =
                                      Append(@, [url |-> ApiUrl(state[r]).s \o "/invoke",
                                                 tool_name |-> state[r].intent.s,
                                                 outcome |-> outcome])]
                       /\ state' = [state EXCEPT ![r].api_response =
                                       dispatch_to_api(state[r], outcome)]
               ELSE /\ state' = [state EXCEPT ![r].api_response =
                                    dispatch_to_api(state[r], None)]
                    /\ UNCHANGED tool
            /\ Ran(r, "dispatch_to_api", "format_response")
            /\ UNCHANGED http
    /\ UNCHANGED <<users, req, llm, replies, server>>

\* dispatch_to_api posting a second time when the first POST failed
dispatch_node_second_attempt(r) ==
    /\ pc[r] = "dispatch_to_api"
    /\ IF DispatchPosts(state[r])
       THEN \E first, second \in replies.tool :
               LET post(o) == [url |-> ApiUrl(state[r]).s \o "/invoke",
                               tool_name |-> state[r].intent.s,
                               outcome |-> o]
                   failed == first.kind = "raise" \/ first.status # 200
               IN  /\ tool' = [tool EXCEPT ![r] =
                                  IF failed THEN <<post(first), post(second)>>
                                  ELSE <<post(first)>>]
                   /\ state' = [state EXCEPT ![r].api_response =
                                   dispatch_to_api(state[r],
                                                   IF failed THEN second ELSE first)]
       ELSE /\ state' = [state EXCEPT ![r].api_response =
                            dispatch_to_api(state[r], None)]
            /\ UNCHANGED tool
    /\ Ran(r, "dispatch_to_api", "format_response")
    /\ UNCHANGED <<users, req, llm, http, replies, server>>

\* dispatch_to_api posting again, as long as the POST fails
dispatch_node_retries(r) ==
    /\ pc[r] = "dispatch_to_api"
    /\ IF DispatchPosts(state[r])
       THEN \E outcome \in replies.tool :
               /\ tool' = [tool EXCEPT ![r] =
                              <<[url |-> ApiUrl(state[r]).s \o "/invoke",
                                 tool_name |-> state[r].intent.s,
                                 outcome |-> outcome]>>]
               /\ state' = [state EXCEPT ![r].api_response =
                               dispatch_to_api(state[r], outcome)]
               /\ IF outcome.kind = "raise" \/ outcome.status # 200
                  THEN UNCHANGED <<trace, pc>>
                  ELSE Ran(r, "dispatch_to_api", "format_response")
       ELSE /\ state' = [state EXCEPT ![r].api_response =
                            dispatch_to_api(state[r], None)]
            /\ UNCHANGED tool
            /\ Ran(r, "dispatch_to_api", "format_response")
    /\ UNCHANGED <<users, req, llm, http, replies, server>>

dispatch_node(r) ==
    /\ pc[r] = "dispatch_to_api"
    /\ IF DispatchPosts(state[r])
       THEN \E outcome \in replies.tool :
               /\ tool' = [tool EXCEPT ![r] =
                              Append(@, [url |-> ApiUrl(state[r]).s \o "/invoke",
                                         tool_name |-> state[r].intent.s,
                                         outcome |-> outcome])]
               /\ state' = [state EXCEPT ![r].api_response =
                               dispatch_to_api(state[r], outcome)]
       ELSE /\ state' = [state EXCEPT ![r].api_response =
                            dispatch_to_api(state[r], None)]
            /\ UNCHANGED tool
    /\ Ran(r, "dispatch_to_api", "format_response")
    /\ UNCHANGED <<users, req, llm, http, replies, server>>

format_node(r) ==
    /\ pc[r] = "format_response"
    /\ IF FormatRaises(state[r])
       THEN /\ Raised(r, "format_response")
            /\ UNCHANGED state
       ELSE /\ state' = [state EXCEPT ![r].final_response = format_response(state[r])]
            /\ Ran(r, "format_response", "END")
            /\ UNCHANGED http
    /\ UNCHANGED <<users, req, llm, tool, replies, server>>

\* graph.ainvoke returned: chat_endpoint builds the ChatResponse
chat_respond(r) ==
    /\ pc[r] = "END"
    /\ http' = [http EXCEPT ![r] =
                   IF ChatResponseRaises(state[r])
                   THEN HttpReply(500, [detail |-> "Internal server error"])
                   ELSE HttpReply(200, ChatResponse(state[r]))]
    /\ pc' = [pc EXCEPT ![r] = "done"]
    /\ UNCHANGED <<users, req, state, trace, llm, tool, replies, server>>

\* one step of request r: the endpoint or the node it stands at runs
Step(r) ==
    \/ chat_endpoint(r)
    \/ get_user_endpoint(r)
    \/ retrieve_state(r)
    \/ analyze_educational_context(r)
    \/ analyze_intent(r)
    \/ extract_params(r)
    \/ dispatch_node(r)
    \/ format_node(r)
    \/ chat_respond(r)

Next == \E r \in DOMAIN pc : Step(r)

Spec == Init /\ [][Next]_vars

\* the requests of the runs checked for termination
LiveRequests ==
    [kind : {"chat"}, user_id : {"student456", "student001"},
     session_id : {"test-session-001"},
     message : {"Explain quantum mechanics to me", "Can you help me?",
                "I am so TIRED but ready for a quiz", ""},
     chat_history : {<<>>}]
    \cup [kind : {"get_user"}, user_id : {"student456"}]

\* The event loop resumes every coroutine that can run; a model call returns
\* or raises, and client.post returns, raises or runs into timeout=60.0.
LiveSpec == InitWith(LiveRequests) /\ [][Next]_vars /\ \A r \in {1} : WF_vars(Step(r))

\* graph.ainvoke(initial_state) run from entry point to END with nothing
\* else in flight: the state it returns, or the state the raising node left,
\* given what the intent model, the parameter model and the tool answered
RunAlone(table, request, intent_reply, params_reply, tool_reply) ==
    LET s0 == InitialState(request)
        s1 == [s0 EXCEPT !.user_info = UserInfo(get_user_profile(table, s0.user_id))]
        s2 == [s1 EXCEPT !.educational_context = ContextOf(table, s1)]
        s3 == [s2 EXCEPT !.intent = PStr(IntentOf(s2, intent_reply))]
        node == route_by_intent(s3)
        s4 == IF node \in ExtractNodes
              THEN [s3 EXCEPT !.extracted_parameters =
                                  extract_parameters(ExtractNodeTool[node], s3, params_reply)]
              ELSE s3
        s5 == IF node \in ExtractNodes
              THEN [s4 EXCEPT !.api_response = dispatch_to_api(s4, tool_reply)]
              ELSE s4
    IN  IF ~UserInfoValid(get_user_profile(table, s0.user_id)) THEN s0
        ELSE IF FormatRaises(s5) THEN s5
        ELSE [s5 EXCEPT !.final_response = format_response(s5)]

\* Two requests in flight on the one event loop: chat_endpoint coroutines
\* interleave at every await (profile lookup, model calls, tool call).
ConcRequests ==
    {[kind |-> "chat", user_id |-> "student456", session_id |-> "test-session-001",
      message |-> "Explain quantum mechanics to me", chat_history |-> <<>>],
     [kind |-> "chat", user_id |-> "student123", session_id |-> "test-session-002",
      message |-> "I'm confused and tired, give me a quiz", chat_history |-> <<>>],
     [kind |-> "get_user", user_id |-> "student789"]}

ConcReplies ==
    [intent |-> {LlmRaise, LlmReply("flashcard_generator")},
     params |-> {LlmRaise, LlmReply(JsonDumps(ParamsDoc))},
     tool   |-> {HttpRaise(TimeoutMessage), HttpResponse(500, "Internal Server Error"),
                 HttpResponse(200, JsonDumps(ToolSuccessDoc))}]

\* Two requests in flight that may agree on user and message and differ in
\* session and history.
PairRequests ==
    {[kind |-> "chat", user_id |-> "student456", session_id |-> "test-session-001",
      message |-> "Explain quantum mechanics to me", chat_history |-> <<>>],
     [kind |-> "chat", user_id |-> "student456", session_id |-> "test-session-002",
      message |-> "Explain quantum mechanics to me",
      chat_history |-> <<[role |-> "user",
                          content |-> "Hi, I want to improve my biology knowledge"]>>],
     [kind |-> "chat", user_id |-> "student789", session_id |-> "test-session-001",
      message |-> "Explain quantum mechanics to me", chat_history |-> <<>>],
     [kind |-> "chat", user_id |-> "student456", session_id |-> "test-session-001",
      message |-> "I'm confused and tired, give me a quiz", chat_history |-> <<>>],
     [kind |-> "get_user", user_id |-> "student456"]}

PairSpec == InitFor({1, 2}, PairRequests, ConcReplies) /\ [][Next]_vars

ConcSpec == InitFor({1, 2}, ConcRequests, ConcReplies) /\ [][Next]_vars

(***************************************************************************)
(* The flashcard tool server serving one request                           *)
(***************************************************************************)

\* the values extracted_parameters can hold under "count"
CountValues ==
    {PNum(-2), PNum(0), PNum(1), PNum(3), PNum(5), PNum(12), PNum(25),
     PStr("7"), PStr(" 4 "), PStr("-1"), PStr("abc"), PStr(""),
     PBool(TRUE), None, PList(<<PNum(1), PNum(2)>>)}

FlashcardParameters ==
    {PDict(<<<<"topic", PStr("photosynthesis")>>, <<"count", c>>>>) : c \in CountValues}
    \cup {PDict(<<<<"topic", PStr("photosynthesis")>>>>),
          PDict(<<<<"number", PNum(4)>>, <<"difficulty", PStr("HIGH")>>>>),
          PDict(<<<<"count", PNum(2)>>, <<"difficulty", PNum(3)>>>>)}

FlashcardContexts ==
    [teaching_style : {"visual"},
     emotional_state : {"focused", "anxious", "confused", "tired"},
     mastery_level : {3, 7, 10},
     inferred_difficulty : {"medium"}]

\* the FlashcardRequest bodies POST /invoke receives (the fields invoke_tool reads)
FlashcardRequests ==
    [extracted_parameters : FlashcardParameters, educational_context : FlashcardContexts]

\* POST /invoke up to the loop: the parameters are extracted and adapted; an
\* exception ends in the except branch of invoke_tool
flashcard_invoke_tool ==
    /\ server.pc = "invoke"
    /\ LET context == server.request.educational_context
           params == server.request.extracted_parameters
       IN  IF AdaptDifficultyRaises(SafeDifficulty(params))
           THEN server' = [server EXCEPT
                              !.pc = "done",
                              !.response = [success |-> FALSE, data |-> <<>>,
                                            error |-> "Flashcard generation failed"]]
           ELSE server' = [server EXCEPT
                              !.pc = "generate",
                              !.adapted_count =
                                  adapt_flashcard_count(SafeCount(params), context),
                              !.adapted_difficulty =
                                  adapt_difficulty(SafeDifficulty(params), context)]
    /\ UNCHANGED <<users, req, state, pc, trace, llm, tool, http, replies>>

\* one round of `for i in range(adapted_count)`: _generate_real_flashcard never
\* raises and returns a card with id i + 1 (its texts are left out)
flashcard_generate ==
    /\ server.pc = "generate"
    /\ Len(server.flashcards) < server.adapted_count
    /\ server' = [server EXCEPT
                     !.flashcards = Append(@, [id |-> Len(@) + 1,
                                               difficulty |-> server.adapted_difficulty])]
    /\ UNCHANGED <<users, req, state, pc, trace, llm, tool, http, replies>>

\* the loop is over: invoke_tool returns the FlashcardResponse
flashcard_return ==
    /\ server.pc = "generate"
    /\ ~(Len(server.flashcards) < server.adapted_count)
    /\ server' = [server EXCEPT
                     !.pc = "done",
                     !.response = [success |-> TRUE,
                                   data |-> [flashcards |-> server.flashcards,
                                             count |-> server.adapted_count,
                                             difficulty |-> server.adapted_difficulty],
                                   error |-> ""]]
    /\ UNCHANGED <<users, req, state, pc, trace, llm, tool, http, replies>>

\* the server alone: the orchestrator has no request in flight
FlashInit ==
    /\ users = Store
    /\ req = <<>> /\ state = <<>> /\ pc = <<>> /\ trace = <<>>
    /\ llm = <<>> /\ tool = <<>> /\ http = <<>>
    /\ replies = AllReplies
    /\ server \in {[ServerIdle EXCEPT !.pc = "invoke", !.request = q] :
                      q \in FlashcardRequests}

FlashNext == flashcard_invoke_tool \/ flashcard_generate \/ flashcard_return

FlashSpec == FlashInit /\ [][FlashNext]_vars

(***************************************************************************)
(* Properties                                                              *)
(***************************************************************************)

Reqs == DOMAIN pc
IsChat(r) == req[r].kind = "chat"
Done(r) == pc[r] = "done"
HasRun(r, node) == \E i \in 1..Len(trace[r]) : trace[r][i] = node
Present(r) == req[r].user_id \in DOMAIN users
\* the request passed validation and its pipeline has a WorkflowState
Started(r) == IsChat(r) /\ state[r] # None
Answered200(r) == Done(r) /\ http[r].status = 200

\* C1: a valid chat request of a stored user is always answered 200 with a
\* response string, whatever the model calls and the tool call did.
C1_AlwaysAnswered ==
    \A r \in Reqs :
        (IsChat(r) /\ ChatRequestValid(req[r]) /\ Present(r) /\ Done(r))
        => /\ http[r].status = 200
           /\ http[r].body.response # None

\* the last POST to a tool made for r failed: it raised, or the status is not 200
DispatchFailed(r) ==
    /\ tool[r] # <<>>
    /\ LET o == tool[r][Len(tool[r])].outcome
       IN  o.kind = "raise" \/ o.status # 200

\* the error text the claims give for a failed POST
FailedErrorText(r) ==
    LET o == tool[r][Len(tool[r])].outcome
    IN  IF o.kind = "raise" THEN "Connection error: " \o o.message
        ELSE "API server error: " \o ToString(o.status)

\* C2: after a failed dispatch (the POST raised or answered another status than
\* 200) format_response is the next node, final_response is the fixed failure
\* template around the synthesized error text, and the request is answered 200
\* with that string as response.
C2_DispatchFailureSurfaced ==
    \A r \in Reqs :
        (IsChat(r) /\ DispatchFailed(r))
        => /\ pc[r] \in {"format_response", "END", "done"}
           /\ pc[r] \in {"END", "done"} =>
                 /\ HasRun(r, "format_response")
                 /\ state[r].final_response =
                        PStr("I encountered an issue while processing your request: "
                             \o FailedErrorText(r) \o ". Please try again.")
           /\ Done(r) =>
                 /\ http[r].status = 200
                 /\ http[r].body.response = state[r].final_response

C2_Witness ==
    \E r \in Reqs :
        /\ IsChat(r) /\ DispatchFailed(r) /\ Answered200(r)
        /\ tool[r][1].outcome.kind = "raise"
        /\ Contains("Connection error: All connection attempts failed",
                    http[r].body.response.s)

\* C3: once the intent is unknown, no extract node and no dispatch node runs,
\* no POST to a tool is made, api_response stays None, format_response comes
\* next and final_response is the fixed clarification message.
C3_UnknownShortCircuits ==
    \A r \in Reqs :
        (Started(r) /\ state[r].intent = PStr("unknown"))
        => /\ \A i \in 1..Len(trace[r]) :
                 trace[r][i] \notin ExtractNodes \cup {"dispatch_to_api"}
           /\ tool[r] = <<>>
           /\ state[r].api_response = None
           /\ pc[r] \in {"format_response", "END", "done"}
           /\ pc[r] \in {"END", "done"} =>
                 state[r].final_response =
                     PStr("I understand you need help with learning. Could you please specify if you'd like flashcards, notes, concept explanations, or practice questions?")

C3_Witness ==
    \E r \in Reqs :
        /\ Started(r) /\ state[r].intent = PStr("unknown")
        /\ pc[r] = "END"
        /\ trace[r] = <<"retrieve_state", "analyze_educational_context",
                        "analyze_intent", "format_response">>

\* C4: a chat request with an empty message is answered 422 and no node of
\* the pipeline ever runs for it.
C4_EmptyMessageRejected ==
    \A r \in Reqs :
        (IsChat(r) /\ req[r].message = "")
        => /\ trace[r] = <<>>
           /\ state[r] = None
           /\ pc[r] \in {"request", "done"}
           /\ Done(r) => http[r].status = 422

C4_Witness ==
    \E r \in Reqs :
        /\ IsChat(r) /\ req[r].message = "" /\ req[r].user_id = "student123"
        /\ req[r].session_id # ""
        /\ Done(r) /\ http[r].status = 422

\* C5: a chat request whose user_id is not in the profile table is answered
\* 500, and no other valid chat request is answered with anything but 200.
C5_OnlyAbsentUserFails ==
    \A r \in Reqs :
        (IsChat(r) /\ ChatRequestValid(req[r]) /\ Done(r))
        => /\ ~Present(r) => http[r].status = 500
           /\ http[r].status # 200 => ~Present(r)

\* C6: GET /user/{user_id} answers the stored record of that id when the id
\* is in the table and 404 when it is not; never the record of another user.
C6_UserLookup ==
    \A r \in Reqs :
        (req[r].kind = "get_user" /\ Done(r))
        => /\ Present(r) =>
                 http[r].status = 200 /\ http[r].body = users[req[r].user_id]
           /\ ~Present(r) => http[r].status = 404
           /\ http[r].status = 200 => http[r].body.user_id = req[r].user_id

\* C7: analyze_intent never raises and leaves intent set to one of the five
\* ToolIntent values, whatever the model call did; every 200 chat response
\* carries such a value as tool_used.
C7_IntentAlwaysSet ==
    \A r \in Reqs :
        IsChat(r)
        => /\ HasRun(r, "analyze_intent") =>
                 /\ state[r].intent # None
                 /\ state[r].intent.s \in ToolIntent
           /\ (trace[r] # <<>> /\ trace[r][Len(trace[r])] = "analyze_intent") =>
                 pc[r] \in ExtractNodes \cup {"format_response"}
           /\ Answered200(r) =>
                 /\ http[r].body.tool_used # None
                 /\ http[r].body.tool_used.s \in ToolIntent

\* the intent model call raised, or its reply holds no keyword of intent_map
IntentModelUnusable(r) ==
    \/ llm[r].intent.kind = "raise"
    \/ \A i \in 1..Len(intent_map) :
          ~Contains(intent_map[i][1], Lower(llm[r].intent.content))

C7_Witness ==
    \E r \in Reqs :
        /\ IsChat(r) /\ Answered200(r)
        /\ llm[r].intent # None /\ IntentModelUnusable(r)
        /\ http[r].body.tool_used = PStr("unknown")

\* C8: whenever analyze_intent is about to run, educational_context is set
\* and its four fields hold valid values; when the inference raised inside
\* (here: the profile's teaching style or mastery level is no valid value)
\* the context is exactly direct / focused / 1 / medium.
C8_ContextBeforeIntent ==
    \A r \in Reqs :
        (IsChat(r) /\ pc[r] = "analyze_intent")
        => /\ state[r].educational_context # None
           /\ state[r].educational_context.teaching_style \in
                  {"direct", "socratic", "visual", "flipped_classroom"}
           /\ state[r].educational_context.emotional_state \in
                  {"focused", "anxious", "confused", "tired"}
           /\ state[r].educational_context.mastery_level \in 1..10
           /\ state[r].educational_context.inferred_difficulty \in
                  {"easy", "medium", "hard", "beginner", "intermediate", "advanced"}
           /\ ( \/ state[r].user_info = None
                \/ ProfileTeachingStyle(get_user_profile(users, state[r].user_id))
                       \notin {"direct", "socratic", "visual", "flipped_classroom"}
                \/ ProfileMasteryLevel(get_user_profile(users, state[r].user_id))
                       \notin 1..10 )
              => state[r].educational_context =
                     [t |-> "EducationalContext", teaching_style |-> "direct",
                      emotional_state |-> "focused", mastery_level |-> 1,
                      inferred_difficulty |-> "medium"]

C8_Witness ==
    \E r \in Reqs :
        /\ IsChat(r) /\ pc[r] = "analyze_intent"
        /\ req[r].user_id = "student001"
        /\ get_user_profile(users, state[r].user_id).preferred_teaching_style = "lecture"
        /\ state[r].educational_context.teaching_style = "direct"
        /\ trace[r] = <<"retrieve_state", "analyze_educational_context">>

\* C9: whenever dispatch_to_api is about to run for a tool intent,
\* extracted_parameters is a non-null key-value map: the object the model's
\* reply holds or the fallback map of the tool.
C9_ParametersAreMap ==
    \A r \in Reqs :
        (IsChat(r) /\ pc[r] = "dispatch_to_api" /\ state[r].intent.s \in ToolIntents)
        => /\ state[r].extracted_parameters # None
           /\ state[r].extracted_parameters.t = "dict"

\* for each reply of the parameter model: TRUE when the reply without the
\* fence is JSON
ReplyIsJson ==
    [content \in {o.content : o \in {x \in ParamOutcomes : x.kind = "reply"}} |->
        JsonParses(CleanJson(Strip(content)))]

\* the parameter model call raised, or its reply without the fence is no JSON
ParamModelFailed(r) ==
    /\ llm[r].params # None
    /\ \/ llm[r].params.kind = "raise"
       \/ ~ReplyIsJson[llm[r].params.content]

\* the fallback map the specification documents for the quiz tool
QuizFallbackDocumented ==
    PDict(<<<<"topic", PStr("general")>>, <<"subject", PStr("general")>>,
            <<"difficulty", PStr("intermediate")>>, <<"question_type", PStr("practice")>>,
            <<"num_questions", PNum(10)>>>>)

\* the keys of each tool's fallback map, as its parameter schema names them
FallbackKeys(tool_name) ==
    CASE tool_name = "flashcard_generator" ->
            <<"topic", "count", "difficulty", "subject", "include_examples">>
      [] tool_name = "note_maker" ->
            <<"topic", "subject", "note_taking_style", "include_examples",
              "include_analogies">>
      [] tool_name = "concept_explainer" ->
            <<"concept_to_explain", "current_topic", "desired_depth">>
      [] tool_name = "quiz_generator" ->
            <<"topic", "subject", "difficulty", "question_type", "num_questions">>

\* C10: when the parameter model call raised or its reply is no JSON after
\* the fence is stripped, extracted_parameters is the fallback map of the
\* tool the intent selected (for the quiz tool: topic general, subject
\* general, difficulty intermediate, question_type practice, num_questions
\* 10), not empty and not another tool's map, and dispatch_to_api runs next.
C10_FallbackOnFailure ==
    \A r \in Reqs :
        (IsChat(r) /\ ParamModelFailed(r))
        => /\ HasRun(r, "dispatch_to_api") \/ pc[r] = "dispatch_to_api"
           /\ state[r].extracted_parameters.t = "dict"
           /\ state[r].extracted_parameters.pairs # <<>>
           /\ [i \in 1..Len(state[r].extracted_parameters.pairs) |->
                  state[r].extracted_parameters.pairs[i][1]]
              = FallbackKeys(state[r].intent.s)
           /\ state[r].intent = PStr("quiz_generator") =>
                 state[r].extracted_parameters = QuizFallbackDocumented
           /\ \A other \in ToolIntents \ {state[r].intent.s} :
                 state[r].extracted_parameters # get_fallback_params(other)

C10_Witness ==
    \E r \in Reqs :
        /\ IsChat(r) /\ ParamModelFailed(r)
        /\ llm[r].params.kind = "reply"
        /\ state[r].intent = PStr("quiz_generator")
        /\ state[r].extracted_parameters = QuizFallbackDocumented
        /\ HasRun(r, "dispatch_to_api")

\* the try block of analyze_educational_context ran to its end for r: the
\* profile's structured teaching style and mastery level are valid values
InferenceSucceeded(r) ==
    /\ IsChat(r) /\ HasRun(r, "analyze_educational_context")
    /\ ProfileTeachingStyle(get_user_profile(users, state[r].user_id))
           \in {"direct", "socratic", "visual", "flipped_classroom"}
    /\ ProfileMasteryLevel(get_user_profile(users, state[r].user_id)) \in 1..10

\* the marker sets of the message, in their priority order
EmotionMarkers ==
    << <<"confused", {"confused", "lost", "don't understand", "don't get"}>>,
       <<"anxious", {"anxious", "nervous", "worried", "struggling", "hard"}>>,
       <<"tired", {"tired", "exhausted", "sleepy", "burned out"}>>,
       <<"focused", {"focused", "ready", "excited", "motivated"}>> >>

\* the marker sets a word of which occurs in the lowercased message
MarkerHits(message) ==
    {i \in 1..Len(EmotionMarkers) :
        \E w \in EmotionMarkers[i][2] : Contains(w, Lower(message))}

\* the emotional-state keywords the profile's summary holds
SummaryKeywords(summary) ==
    {k \in {"focused", "anxious", "confused"} : Contains(k, Lower(summary))}

\* both tabulated over the messages and the summaries of the model
MarkerHitsOf == [m \in Messages |-> MarkerHits(m)]
SummaryKeywordsOf ==
    [summary \in {Store[u].emotional_state_summary : u \in DOMAIN Store} |->
        SummaryKeywords(summary)]
SaysConfused ==
    {m \in Messages :
        Contains("confused", Lower(m)) \/ Contains("don't understand", Lower(m))}

\* C11: on the inferring path the emotional state is that of the first marker
\* set (confused, anxious, tired, focused) a word of which occurs in the
\* lowercased message, whatever the profile; with no marker in the message it
\* is a keyword the profile's emotional-state summary holds, and focused when
\* the summary holds none. A message with "confused" or "don't understand"
\* gives confused for every profile.
C11_EmotionalStatePriority ==
    \A r \in Reqs :
        InferenceSucceeded(r)
        => LET e == state[r].educational_context.emotional_state
               hits == MarkerHitsOf[state[r].message]
               keys == SummaryKeywordsOf[state[r].user_info.emotional_state_summary]
           IN  /\ hits # {} =>
                     e = EmotionMarkers[CHOOSE i \in hits : \A j \in hits : i <= j][1]
               /\ (hits = {} /\ keys # {}) => e \in keys
               /\ (hits = {} /\ keys = {}) => e = "focused"
               /\ state[r].message \in SaysConfused => e = "confused"

C11_Witness ==
    \E r \in Reqs :
        /\ InferenceSucceeded(r)
        /\ state[r].message = "I don't understand derivatives, I'm worried"
        /\ req[r].user_id = "student456"
        /\ state[r].user_info.emotional_state_summary = "Anxious about new concepts"
        /\ state[r].educational_context.emotional_state = "confused"

\* the difficulty rule of the claims, for an emotional state and a mastery
DifficultyRule(emotional_state, mastery) ==
    IF emotional_state \in {"anxious", "confused", "tired"} THEN "easy"
    ELSE IF emotional_state = "focused" /\ mastery >= 7 THEN "hard"
    ELSE "medium"

SummaryLevelOf ==
    [summary \in {Store[u].mastery_level_summary : u \in DOMAIN Store} |->
        SummaryMasteryLevel(summary)]

LookedUpRow(r) ==
    IF Present(r) THEN users[req[r].user_id] ELSE users["student123"]

\* C13: on the inferring path the context's teaching_style is the profile's
\* structured preferred_teaching_style and its mastery_level the profile's
\* structured current_mastery_level, for every message, whatever the
\* summaries say and whatever emotional state was inferred.
C13_StyleAndMasteryVerbatim ==
    \A r \in Reqs :
        InferenceSucceeded(r)
        => /\ state[r].educational_context.teaching_style =
                  LookedUpRow(r).preferred_teaching_style
           /\ state[r].educational_context.mastery_level =
                  LookedUpRow(r).current_mastery_level

C13_Witness ==
    \E r \in Reqs :
        /\ InferenceSucceeded(r)
        /\ req[r].user_id = "student000"
        /\ state[r].message = "I am so TIRED but ready for a quiz"
        /\ state[r].user_info.mastery_level_summary =
               "Level 8: Advanced, ready for challenges"
        /\ state[r].educational_context.emotional_state = "tired"
        /\ state[r].educational_context.teaching_style = "flipped_classroom"
        /\ state[r].educational_context.mastery_level = 3

\* the context of r is set
ContextSet(r) == Started(r) /\ state[r].educational_context # None

\* no step changes a context that is set
ContextKept ==
    \A r \in Reqs :
        ContextSet(r) => state'[r].educational_context = state[r].educational_context

\* a 200 chat response reports the four fields of the context of the state
ContextReported ==
    \A r \in Reqs :
        (IsChat(r) /\ Answered200(r))
        => /\ ContextSet(r)
           /\ http[r].body.educational_context_used # None
           /\ http[r].body.educational_context_used.teaching_style =
                  state[r].educational_context.teaching_style
           /\ http[r].body.educational_context_used.emotional_state =
                  state[r].educational_context.emotional_state
           /\ http[r].body.educational_context_used.mastery_level =
                  state[r].educational_context.mastery_level
           /\ http[r].body.educational_context_used.inferred_difficulty =
                  state[r].educational_context.inferred_difficulty

\* C14: once analyze_educational_context has set educational_context no
\* later step changes it, and every 200 chat response reports exactly its
\* four fields in educational_context_used, never null, whatever the intent
\* and whether extraction or dispatch fell back or failed.
C14_ContextImmutableAndReported == [][ContextKept]_vars /\ []ContextReported

\* scenario B with a failed dispatch and fallback parameters
C14_Witness ==
    \E r \in Reqs :
        /\ IsChat(r) /\ Answered200(r) /\ DispatchFailed(r) /\ ParamModelFailed(r)
        /\ req[r].user_id = "student456"
        /\ req[r].message = "Explain quantum mechanics to me"
        /\ http[r].body.educational_context_used.emotional_state = "anxious"
        /\ http[r].body.educational_context_used.teaching_style = "visual"
        /\ http[r].body.educational_context_used.mastery_level = 3
        /\ http[r].body.educational_context_used.inferred_difficulty = "easy"

\* the nodes of a whole run, in order, for an intent
NodePath(intent) ==
    <<"retrieve_state", "analyze_educational_context", "analyze_intent">>
    \o (CASE intent = "flashcard_generator" ->
                 <<"extract_flashcard_params", "dispatch_to_api">>
           [] intent = "note_maker"        -> <<"extract_note_params", "dispatch_to_api">>
           [] intent = "concept_explainer" -> <<"extract_concept_params", "dispatch_to_api">>
           [] intent = "quiz_generator"    -> <<"extract_quiz_params", "dispatch_to_api">>
           [] intent = "unknown"           -> <<>>)
    \o <<"format_response", "END">>

\* the path r is on: before analyze_intent ran every path starts the same way
PathOf(r) ==
    IF state[r].intent = None THEN NodePath("unknown") ELSE NodePath(state[r].intent.s)

\* C15: the nodes that ran for a request are an initial part of retrieve_state,
\* analyze_educational_context, analyze_intent, the one extract node of the
\* intent and dispatch_to_api (neither of them for unknown), format_response;
\* the node that runs next is the next of that order, END comes only after
\* format_response, and no node runs twice.
C15_NodeOrder ==
    \A r \in Reqs :
        Started(r)
        => LET n == Len(trace[r])
               path == PathOf(r)
           IN  /\ n < Len(path)
               /\ trace[r] = SubSeq(path, 1, n)
               /\ state[r].intent = None => n < 3
               /\ ~Done(r) => pc[r] = path[n + 1]
               /\ pc[r] = "END" => trace[r][n] = "format_response"
               /\ \A i, j \in 1..n : trace[r][i] = trace[r][j] => i = j

C15_Witness ==
    \E r \in Reqs :
        /\ Started(r) /\ pc[r] = "END"
        /\ state[r].intent = PStr("note_maker")
        /\ trace[r] = <<"retrieve_state", "analyze_educational_context",
                        "analyze_intent", "extract_note_params", "dispatch_to_api",
                        "format_response">>

\* r reached END with its final_response set (and may have been answered since)
ReachedEnd(r) ==
    /\ pc[r] \in {"END", "done"}
    /\ trace[r] # <<>> /\ trace[r][Len(trace[r])] = "format_response"
    /\ state[r].final_response # None

\* a node of r raised: the run ended with the exception chat_endpoint turns into 500
RaisedOut(r) == Done(r) /\ http[r].status = 500

\* the POST made for r ran into its timeout
TimedOut(r) ==
    /\ tool[r] # <<>>
    /\ tool[r][Len(tool[r])].outcome = [kind |-> "raise", message |-> ""]

\* format_response ran for r on the failure api_response of a timeout
FormattedTimeout(r) ==
    /\ HasRun(r, "format_response")
    /\ state[r].api_response =
           PDict(<<<<"success", PBool(FALSE)>>, <<"error", PStr("Connection error: ")>>>>)

\* C16: with every model call and the tool call eventually returning, raising
\* or timing out, a request that entered the pipeline eventually reaches END
\* with final_response set or ends with an exception, and after a tool
\* timeout format_response eventually runs on a failure api_response.
C16_Terminates ==
    \A r \in {1} :
        /\ Started(r) ~> (ReachedEnd(r) \/ RaisedOut(r))
        /\ TimedOut(r) ~> FormattedTimeout(r)

C16_Witness ==
    \E r \in Reqs :
        /\ Started(r) /\ TimedOut(r) /\ FormattedTimeout(r)
        /\ pc[r] = "END" /\ ReachedEnd(r)
        /\ Contains("Connection error: ", state[r].final_response.s)

\* a step in which r does not move leaves everything of r as it is
OthersUntouched ==
    \A r \in Reqs :
        pc'[r] = pc[r]
        => /\ state'[r] = state[r] /\ trace'[r] = trace[r] /\ llm'[r] = llm[r]
           /\ tool'[r] = tool[r] /\ http'[r] = http[r] /\ req'[r] = req[r]

\* the profile store is the one the service started with
StoreUnwritten == users = Store

\* what the services answered to r
ToolReply(r) == IF tool[r] = <<>> THEN None ELSE tool[r][1].outcome

\* a finished chat request holds the state its run alone gives on the same replies
SameAsAlone ==
    \A r \in Reqs :
        (Started(r) /\ Done(r))
        => state[r] = RunAlone(Store, req[r], llm[r].intent, llm[r].params, ToolReply(r))

\* C17: with two requests interleaving at their awaits, a step of one request
\* changes nothing of the other, the profile store is never written, and a
\* finished request holds the state its run alone reaches on the same replies
\* of the model and the tool.
C17_RequestsIsolated ==
    [][OthersUntouched]_vars /\ []StoreUnwritten /\ []SameAsAlone

\* both requests were between analyze_educational_context and format_response
\* at the same time, then both finished with different contexts
C17_Witness ==
    /\ IsChat(1) /\ IsChat(2) /\ Done(1) /\ Done(2)
    /\ req[1].user_id = "student456" /\ req[2].user_id = "student123"
    /\ state[1].educational_context.emotional_state = "anxious"
    /\ state[2].educational_context.emotional_state = "confused"
    /\ tool[1] # <<>> /\ tool[2] # <<>>
    /\ tool[1][1].outcome.kind = "raise" /\ tool[2][1].outcome.kind = "response"
    /\ state[1].final_response # state[2].final_response

\* C18: at most one POST to a tool endpoint is made for a request, none for
\* the intent unknown; after a POST that raised, timed out or answered another
\* status than 200 there is no second one, api_response holds the failure and
\* format_response is the node that runs next.
C18_SinglePostNoRetry ==
    \A r \in Reqs :
        IsChat(r)
        => /\ Len(tool[r]) <= 1
           /\ (Started(r) /\ state[r].intent = PStr("unknown")) => tool[r] = <<>>
           /\ tool[r] # <<>> => HasRun(r, "dispatch_to_api")
           /\ DispatchFailed(r) =>
                 /\ state[r].api_response =
                        PDict(<<<<"success", PBool(FALSE)>>,
                                <<"error", PStr(FailedErrorText(r))>>>>)
                 /\ \/ pc[r] = "format_response"
                    \/ /\ HasRun(r, "format_response")
                       /\ \A i \in 1..(Len(trace[r]) - 1) :
                              trace[r][i] = "dispatch_to_api"
                              => trace[r][i + 1] = "format_response"

C18_Witness ==
    \E r \in Reqs :
        /\ IsChat(r) /\ DispatchFailed(r) /\ Done(r)
        /\ Len(tool[r]) = 1
        /\ tool[r][1].outcome = [kind |-> "response", status |-> 500,
                                 body |-> "Internal Server Error"]
        /\ state[r].api_response =
               PDict(<<<<"success", PBool(FALSE)>>,
                       <<"error", PStr("API server error: 500")>>>>)

\* the endpoint the claims fix for each tool intent
FixedEndpoint ==
    [flashcard_generator |-> "http://localhost:8001/invoke",
     note_maker          |-> "http://localhost:8002/invoke",
     concept_explainer   |-> "http://localhost:8003/invoke",
     quiz_generator      |-> "http://localhost:8004/invoke"]

\* C19: once dispatch_to_api has run for one of the four tool intents, one POST
\* went to the endpoint fixed for the intent and api_response is decided by its
\* outcome alone: the response body on status 200, the dict with
\* "API server error: <status>" on another status, the dict with
\* "Connection error: <message>" when the POST raised.
C19_DispatchOutcomes ==
    \A r \in Reqs :
        (Started(r) /\ HasRun(r, "dispatch_to_api")
                    /\ state[r].intent.s \in ToolIntents)
        => /\ Len(tool[r]) = 1
           /\ tool[r][1].url = FixedEndpoint[state[r].intent.s]
           /\ LET o == tool[r][1].outcome
                   api == state[r].api_response
               IN  IF o.kind = "raise"
                   THEN api = PDict(<<<<"success", PBool(FALSE)>>,
                                      <<"error", PStr("Connection error: " \o o.message)>>>>)
                   ELSE IF o.status = 200
                   THEN JsonDumps(api) = o.body
                   ELSE api = PDict(<<<<"success", PBool(FALSE)>>,
                                      <<"error", PStr("API server error: "
                                                      \o ToString(o.status))>>>>)

\* the keyword table in the order the claims give it
KeywordOrder ==
    << <<"flashcard", "flashcard_generator">>, <<"note", "note_maker">>,
       <<"concept", "concept_explainer">>, <<"explain", "concept_explainer">>,
       <<"quiz", "quiz_generator">>, <<"practice", "quiz_generator">>,
       <<"question", "quiz_generator">> >>

\* for each reply of the intent model: the intent of the first keyword, in
\* table order, that the trimmed and lowercased reply contains ("" for none)
FirstKeywordIntentOf ==
    [content \in {o.content : o \in {x \in IntentOutcomes : x.kind = "reply"}} |->
        LET reply == Lower(Strip(content))
            found == {i \in 1..Len(KeywordOrder) : Contains(KeywordOrder[i][1], reply)}
        IN  IF found = {} THEN ""
            ELSE KeywordOrder[CHOOSE i \in found : \A j \in found : i <= j][2]]

\* the intent model replied to r and its reply holds a keyword of the table
ReplyHasKeyword(r) ==
    /\ Started(r) /\ HasRun(r, "analyze_intent")
    /\ llm[r].intent # None /\ llm[r].intent.kind = "reply"
    /\ FirstKeywordIntentOf[llm[r].intent.content] # ""

\* C20: when the trimmed, lowercased reply of the intent model contains a
\* keyword of the table, the intent is the one of the first keyword in table
\* order (flashcard, note, concept, explain, quiz, practice, question) found in
\* the reply, wherever the keywords stand in the reply and whatever keywords
\* the user's message holds.
C20_FirstKeywordInTableOrder ==
    \A r \in Reqs :
        ReplyHasKeyword(r)
        => state[r].intent = PStr(FirstKeywordIntentOf[llm[r].intent.content])

C20_Witness ==
    \E r \in Reqs :
        /\ ReplyHasKeyword(r)
        /\ state[r].message = "I want to practice flashcards on photosynthesis for biology"
        /\ llm[r].intent.content = "The student wants practice questions on their notes"
        /\ state[r].intent = PStr("note_maker")
        /\ HasRun(r, "extract_note_params")

\* the four fallback word lists in the order the claims give them
FallbackLists ==
    << <<{"flashcard", "memorize", "cards", "practice terms", "drill"},
         "flashcard_generator">>,
       <<{"note", "notes", "summary", "outline", "write"}, "note_maker">>,
       <<{"explain", "concept", "understand", "what is", "how does", "tell me about"},
         "concept_explainer">>,
       <<{"quiz", "practice", "questions", "test", "problems", "exercises"},
         "quiz_generator">> >>

\* for each message: the lists of which the lowercased message holds a word
FallbackMatchesOf ==
    [m \in Messages |->
        {i \in 1..Len(FallbackLists) :
            \E w \in FallbackLists[i][1] : Contains(w, Lower(m))}]

\* the intent model was called for r and raised, or replied without a table keyword
IntentModelFailed(r) ==
    /\ Started(r) /\ HasRun(r, "analyze_intent") /\ llm[r].intent # None
    /\ \/ llm[r].intent.kind = "raise"
       \/ FirstKeywordIntentOf[llm[r].intent.content] = ""

\* C21: after analyze_intent the intent is unknown exactly when the model call
\* raised or replied without a table keyword and the lowercased message holds
\* no word of the four fallback lists; when the model failed and the message
\* holds such a word, the intent is one the message's words stand for.
C21_UnknownOnlyWithoutAnyMatch ==
    \A r \in Reqs :
        (Started(r) /\ HasRun(r, "analyze_intent") /\ llm[r].intent # None)
        => /\ state[r].intent = PStr("unknown")
                <=> (IntentModelFailed(r) /\ FallbackMatchesOf[state[r].message] = {})
           /\ (IntentModelFailed(r) /\ FallbackMatchesOf[state[r].message] # {})
                => \E i \in FallbackMatchesOf[state[r].message] :
                      state[r].intent = PStr(FallbackLists[i][2])

C21_Witness ==
    \E r \in Reqs :
        /\ IntentModelFailed(r)
        /\ llm[r].intent = LlmReply("I cannot determine the tool")
        /\ state[r].message = "Can you help me?"
        /\ state[r].intent = PStr("unknown")
        /\ pc[r] = "format_response"

\* C22: the keyword fallback classifies a message by the first list, in the
\* order flashcard, note, concept, quiz, of which the message holds a word, and
\* by nothing but the message: the same message gives the same intent for
\* every user, session and history.
C22_FallbackFirstListWins ==
    \A r \in Reqs :
        IntentModelFailed(r)
        => LET found == FallbackMatchesOf[state[r].message]
           IN  state[r].intent =
                  IF found = {} THEN PStr("unknown")
                  ELSE PStr(FallbackLists[CHOOSE i \in found : \A j \in found : i <= j][2])

C22_Witness ==
    \E r \in Reqs :
        /\ IntentModelFailed(r) /\ llm[r].intent.kind = "raise"
        /\ state[r].message = "I want to practice flashcards on photosynthesis for biology"
        /\ FallbackMatchesOf[state[r].message] = {1, 4}
        /\ state[r].intent = PStr("flashcard_generator")
        /\ state[r].chat_history # <<>>

\* the part of the adaptation note the claims give for each emotional state
EmotionalPart ==
    [focused  |-> "",
     anxious  |-> "simplified for comfort",
     confused |-> "broken down into simpler concepts",
     tired    |-> "made concise for easy digestion"]

\* the part of the adaptation note the claims give for each teaching style
StylePart ==
    [direct            |-> "",
     flipped_classroom |-> "",
     visual            |-> "enhanced with visual elements",
     socratic          |-> "structured to encourage thinking"]

\* the adaptation note of each context: emotional part, then style part
AdaptationNoteOf ==
    [e \in DOMAIN EmotionalPart, t \in DOMAIN StylePart |->
        IF EmotionalPart[e] = "" /\ StylePart[t] = ""
        THEN "Tailored to your learning preferences."
        ELSE "Adaptations: " \o EmotionalPart[e]
             \o (IF EmotionalPart[e] # "" /\ StylePart[t] # "" THEN ", " ELSE "")
             \o StylePart[t] \o "."]

\* the tool names with their underscores replaced by spaces
SpacedToolName ==
    [flashcard_generator |-> "flashcard generator",
     note_maker          |-> "note maker",
     concept_explainer   |-> "concept explainer",
     quiz_generator      |-> "quiz generator"]

\* json.dumps(data, indent=2) of every data payload a tool body of the model holds
SerializedDataOf ==
    [data \in {Item(doc, "data") : doc \in {d \in JsonDocs : IsDict(d) /\ HasKey(d, "data")}}
        |-> JsonDumpsIndent2(data)]

\* format_response has set final_response from an api_response whose success is true
FormattedSuccess(r) ==
    /\ Started(r) /\ HasRun(r, "format_response")
    /\ state[r].final_response # None
    /\ state[r].intent # PStr("unknown")
    /\ IsDict(state[r].api_response)
    /\ Get(state[r].api_response, "success", None) = PBool(TRUE)

\* C23: for an api_response whose success is true, final_response holds the
\* tool name with spaces for underscores, the adaptation note of the context
\* (emotional part first, then style part, the fixed sentence when both are
\* empty) and the serialized data payload.
C23_SuccessResponseContents ==
    \A r \in Reqs :
        FormattedSuccess(r)
        => LET context == state[r].educational_context
           IN  /\ context.emotional_state \in DOMAIN EmotionalPart
               /\ context.teaching_style \in DOMAIN StylePart
               /\ state[r].final_response =
                     PStr("I've generated " \o SpacedToolName[state[r].intent.s]
                          \o " for you, adapted to your learning needs.\n"
                          \o AdaptationNoteOf[context.emotional_state, context.teaching_style]
                          \o "\nHere are your results:\n\n"
                          \o SerializedDataOf[Item(state[r].api_response, "data")])

C23_Witness ==
    \E r \in Reqs :
        /\ FormattedSuccess(r) /\ Done(r)
        /\ state[r].intent = PStr("concept_explainer")
        /\ state[r].educational_context.emotional_state = "anxious"
        /\ state[r].educational_context.teaching_style = "visual"
        /\ Contains("concept explainer", state[r].final_response.s)
        /\ Contains("Adaptations: simplified for comfort, enhanced with visual elements.",
                    state[r].final_response.s)
        /\ Contains(SerializedDataOf[ToolData], state[r].final_response.s)

\* the one WorkflowState field the claims allow each node to change
DesignatedField ==
    [retrieve_state              |-> "user_info",
     analyze_educational_context |-> "educational_context",
     analyze_intent              |-> "intent",
     extract_flashcard_params    |-> "extracted_parameters",
     extract_note_params         |-> "extracted_parameters",
     extract_concept_params      |-> "extracted_parameters",
     extract_quiz_params         |-> "extracted_parameters",
     dispatch_to_api             |-> "api_response",
     format_response             |-> "final_response"]

\* a step changes a field of the WorkflowState of r only when r stands at the
\* node the field is designated to
FrameKept ==
    \A r \in Reqs :
        Started(r)
        => \A field \in DOMAIN state[r] :
              state'[r][field] # state[r][field]
              => /\ pc[r] \in DOMAIN DesignatedField
                 /\ field = DesignatedField[pc[r]]

\* the four request fields of the WorkflowState are those of the request
InputsKept ==
    \A r \in Reqs :
        Started(r)
        => /\ state[r].user_id = req[r].user_id
           /\ state[r].session_id = req[r].session_id
           /\ state[r].message = req[r].message
           /\ state[r].chat_history = req[r].chat_history

\* C24: every node changes its designated field only (retrieve_state user_info,
\* analyze_educational_context educational_context, analyze_intent intent,
\* extract_*_params extracted_parameters, dispatch_to_api api_response,
\* format_response final_response), on success and fallback paths alike, and
\* user_id, session_id, message and chat_history are never changed.
C24_NodesChangeOwnFieldOnly == [][FrameKept]_vars /\ []InputsKept

\* a run through the fallback paths of context, intent and parameters
C24_Witness ==
    \E r \in Reqs :
        /\ Started(r) /\ Done(r)
        /\ llm[r].intent = LlmRaise /\ llm[r].params = LlmRaise /\ DispatchFailed(r)
        /\ state[r].chat_history # <<>> /\ state[r].chat_history = req[r].chat_history
        /\ state[r].user_info # None /\ state[r].educational_context # None
        /\ state[r].intent = PStr("note_maker")
        /\ state[r].extracted_parameters # PDict(<<>>)
        /\ state[r].api_response # None /\ state[r].final_response # None

\* context inference run once more on the inputs of each chat request
RerunContextOf ==
    [q \in {x \in PairRequests : x.kind = "chat"} |->
        ContextOf(Store, [InitialState(q) EXCEPT
                             !.user_info = UserInfo(get_user_profile(Store, q.user_id))])]

\* C25: the educational context is a function of the message and the user's
\* profile only: two requests with the same message and user_id hold the same
\* context, whatever their session, history, model replies and tool outcomes,
\* and running context inference again on a request's inputs gives the context
\* the request holds.
C25_ContextDependsOnMessageAndProfile ==
    \A r1, r2 \in Reqs :
        (ContextSet(r1) /\ ContextSet(r2)
            /\ req[r1].message = req[r2].message /\ req[r1].user_id = req[r2].user_id)
        => /\ state[r1].educational_context = state[r2].educational_context
           /\ state[r1].educational_context = RerunContextOf[req[r1]]

C25_Witness ==
    \E r1, r2 \in Reqs :
        /\ ContextSet(r1) /\ ContextSet(r2) /\ Done(r1) /\ Done(r2)
        /\ req[r1].message = req[r2].message /\ req[r1].user_id = req[r2].user_id
        /\ req[r1].session_id # req[r2].session_id
        /\ req[r1].chat_history # req[r2].chat_history
        /\ llm[r1].intent # llm[r2].intent /\ llm[r1].params # llm[r2].params
        /\ tool[r1] # tool[r2]
        /\ state[r1].educational_context.emotional_state = "anxious"
        /\ state[r1].educational_context.teaching_style = "visual"
        /\ state[r1].educational_context = state[r2].educational_context

\* the largest count the claims allow for each context
CountCap(context) ==
    IF context.emotional_state \in {"anxious", "confused", "tired"} THEN 3
    ELSE IF context.emotional_state = "focused" /\ context.mastery_level >= 7 THEN 20
    ELSE 10

\* C26: whatever value the extracted count holds, the flashcard server returns
\* exactly as many flashcards as the count it reports, and the count is within
\* 1..20 and at most the cap of the context (3 for anxious, confused, tired;
\* 20 for focused with mastery_level 7 or more; 10 otherwise).
C26_FlashcardCountWithinBounds ==
    (server.pc = "done" /\ server.response.success)
    => /\ Len(server.response.data.flashcards) = server.response.data.count
       /\ server.response.data.count \in 1..20
       /\ server.response.data.count <= CountCap(server.request.educational_context)

\* the level each mastery summary of the table states after "Level" (1 for a
\* summary without one)
StatedLevel ==
    [summary \in {Store[u].mastery_level_summary : u \in DOMAIN Store} |->
        CASE summary = "Level 6: Good understanding, ready for application" -> 6
          [] summary = "Level 3: Building foundational knowledge" -> 3
          [] summary = "Level 4: Building foundational knowledge" -> 4
          [] summary = "Level 8: Advanced, ready for challenges" -> 8
          [] summary = "Advanced learner" -> 1]

\* C27: on the inferring path the context's mastery_level is the profile's
\* structured current mastery level while inferred_difficulty is computed from
\* the level stated in the profile's free-text mastery summary; where the two
\* levels differ, hard is given exactly for focused with a stated level of 7
\* or more, whatever the mastery_level of the same context.
C27_DifficultyFollowsStatedLevel ==
    \A r \in Reqs :
        InferenceSucceeded(r)
        => LET context == state[r].educational_context
               stated == StatedLevel[state[r].user_info.mastery_level_summary]
           IN  /\ context.mastery_level = LookedUpRow(r).current_mastery_level
               /\ context.inferred_difficulty = "hard"
                    <=> (context.emotional_state = "focused" /\ stated >= 7)
               /\ context.inferred_difficulty = "medium"
                    <=> (context.emotional_state = "focused" /\ stated < 7)

C27_Witness ==
    \E r \in Reqs :
        /\ InferenceSucceeded(r) /\ Done(r)
        /\ req[r].user_id = "student000"
        /\ req[r].message = "I'm excited to memorize vocabulary"
        /\ StatedLevel[state[r].user_info.mastery_level_summary] = 8
        /\ LookedUpRow(r).current_mastery_level = 3
        /\ state[r].educational_context.mastery_level = 3
        /\ state[r].educational_context.inferred_difficulty = "hard"

\* format_response is about to run for r, or has run
AtFormat(r) ==
    Started(r) /\ (pc[r] = "format_response" \/ HasRun(r, "format_response"))

\* C28: whenever format_response runs, api_response is absent exactly when the
\* intent is unknown, and final_response is never the failure sentence around
\* "No response from tool" or "Tool not configured".
C28_ResponseAbsentOnlyForUnknown ==
    \A r \in Reqs :
        AtFormat(r)
        => /\ state[r].api_response = None <=> state[r].intent = PStr("unknown")
           /\ state[r].final_response #
                 PStr("I encountered an issue while processing your request: "
                      \o "No response from tool. Please try again.")
           /\ state[r].final_response #
                 PStr("I encountered an issue while processing your request: "
                      \o "Tool not configured. Please try again.")

\* the JSON bodies Python takes for false: null, {}, [], 0, false, ""
FalsyBodies == {"null", "{}", "[]", "0", "false", "\"\""}

\* the one POST made for r was answered 200 with one of the bodies
Answered200With(r, bodies) ==
    /\ Len(tool[r]) = 1
    /\ tool[r][1].outcome.kind = "response"
    /\ tool[r][1].outcome.status = 200
    /\ tool[r][1].outcome.body \in bodies

\* C28 amended: whenever format_response runs, dispatch_to_api has run before
\* it for each of the four tool intents and not for unknown; api_response is
\* absent for unknown and otherwise only when the tool answered 200 with the
\* body null; "Tool not configured" is never the outcome, and "No response from
\* tool" only when the tool answered 200 with a body Python takes for false.
C28_ResponseAbsentOnlyForUnknownOrNull ==
    \A r \in Reqs :
        AtFormat(r)
        => /\ state[r].intent = PStr("unknown")
                => (state[r].api_response = None /\ ~HasRun(r, "dispatch_to_api"))
           /\ state[r].intent # PStr("unknown")
                => /\ HasRun(r, "dispatch_to_api")
                   /\ state[r].api_response = None => Answered200With(r, {"null"})
           /\ state[r].final_response =
                 PStr("I encountered an issue while processing your request: "
                      \o "No response from tool. Please try again.")
                => Answered200With(r, FalsyBodies)
           /\ state[r].final_response #
                 PStr("I encountered an issue while processing your request: "
                      \o "Tool not configured. Please try again.")

C28_Witness ==
    \E r \in Reqs :
        /\ AtFormat(r) /\ Answered200(r)
        /\ state[r].intent = PStr("quiz_generator")
        /\ Answered200With(r, {"null"})
        /\ state[r].api_response = None
        /\ state[r].final_response =
              PStr("I encountered an issue while processing your request: "
                   \o "No response from tool. Please try again.")

\* the failure dict the claims give for an exception with the message
ConnectionError(message) ==
    PDict(<<<<"success", PBool(FALSE)>>,
            <<"error", PStr("Connection error: " \o message)>>>>)

\* dispatch_to_api has run for r
Dispatched(r) == Started(r) /\ HasRun(r, "dispatch_to_api")

\* C29: no exception leaves dispatch_to_api: once the node has run the graph
\* goes on with format_response, and api_response is the "Connection error"
\* dict with the exception's message when the POST raised, when the tool
\* request could not be built from the state (extracted_parameters is no
\* key-value map; no POST is made then) and when a 200 body is no JSON.
C29_DispatchCatchesEverything ==
    \A r \in Reqs :
        Dispatched(r)
        => /\ pc[r] = "format_response" \/ HasRun(r, "format_response")
           /\ state[r].extracted_parameters.t # "dict"
                => /\ tool[r] = <<>>
                   /\ state[r].api_response =
                         ConnectionError("1 validation error for APIRequest")
           /\ (tool[r] # <<>> /\ tool[r][1].outcome.kind = "raise")
                => state[r].api_response = ConnectionError(tool[r][1].outcome.message)
           /\ Answered200With(r, {"<html>Bad Gateway</html>"})
                => state[r].api_response =
                      ConnectionError("Expecting value: line 1 column 1 (char 0)")

C29_Witness ==
    \E r \in Reqs :
        /\ Dispatched(r) /\ Answered200(r)
        /\ state[r].extracted_parameters = PStr("flashcards")
        /\ tool[r] = <<>>
        /\ state[r].api_response = ConnectionError("1 validation error for APIRequest")
        /\ state[r].final_response =
              PStr("I encountered an issue while processing your request: "
                   \o "Connection error: 1 validation error for APIRequest. "
                   \o "Please try again.")

\* the order in which the claims test the profile's emotional-state summary
SummaryOrder == <<"focused", "anxious", "confused">>

\* for each summary of the table: the first word of SummaryOrder the lowercased
\* summary holds, focused when it holds none (only "tired" or "motivated")
FirstSummaryStateOf ==
    [summary \in {Store[u].emotional_state_summary : u \in DOMAIN Store} |->
        LET found == {i \in 1..Len(SummaryOrder) :
                         Contains(SummaryOrder[i], Lower(summary))}
        IN  IF found = {} THEN "focused"
            ELSE SummaryOrder[CHOOSE i \in found : \A j \in found : i <= j]]

\* the messages that hold a marker of tiredness
SaysTired ==
    {m \in Messages :
        \E w \in {"tired", "exhausted", "sleepy", "burned out"} : Contains(w, Lower(m))}

\* C30: when no marker of the message matches, the emotional state is the
\* first of focused, anxious, confused that the profile's emotional-state
\* summary holds, and focused for a summary that holds only "tired" or
\* "motivated"; the state tired comes from a marker in the message only.
C30_SummaryOrderAndNoTiredFromProfile ==
    \A r \in Reqs :
        InferenceSucceeded(r)
        => LET e == state[r].educational_context.emotional_state
               summary == state[r].user_info.emotional_state_summary
           IN  /\ MarkerHitsOf[state[r].message] = {} => e = FirstSummaryStateOf[summary]
               /\ (MarkerHitsOf[state[r].message] = {} /\ summary = "Tired but motivated")
                    => e = "focused"
               /\ e = "tired" => state[r].message \in SaysTired

C30_Witness ==
    \E r \in Reqs :
        /\ InferenceSucceeded(r) /\ Done(r)
        /\ req[r].user_id = "student002"
        /\ state[r].message = "Can you help me?"
        /\ MarkerHitsOf[state[r].message] = {}
        /\ state[r].user_info.emotional_state_summary =
              "Anxious before tests, confused by proofs, focused in class"
        /\ state[r].educational_context.emotional_state = "focused"

=============================================================================
